---- MODULE Spec2Model ----
(***************************************************************************)
(* Model of galick's load-generation core.                                 *)
(*                                                                         *)
(*   pkg/metrics/metrics.go   Stats.Add, Stats.Snapshot, the quantiles      *)
(*   pkg/engine/engine.go     Engine.Run: the worker goroutines, the pacer  *)
(*                            goroutine, the run context, the WaitGroup     *)
(*   pkg/report/tui.go        Model.Update, Model.View, GenerateTextReport  *)
(*   cmd/galick/main.go       the Run closure: the choice of the attacker,  *)
(*                            the headless and TUI branches, the exit code  *)
(*   pkg/protocols/loadhttp   Attacker.Attack of the static attacker        *)
(*   pkg/script               NewScriptAttacker, Attacker.Attack            *)
(*   pkg/hooks                HookRunner.RunPreHook, RunPostHook            *)
(*                                                                         *)
(* Eleven specifications share the state:                                  *)
(*   Spec       one call of Engine.Run, goroutines interleaved at channel,  *)
(*              context and WaitGroup operations; a worker's call of        *)
(*              Stats.Add is one step, its body being a critical section    *)
(*              of Stats.mu.                                                *)
(*   SpecStats  the Stats object under concurrent callers of Add and a      *)
(*              caller of Snapshot, interleaved at mutex operations and at  *)
(*              the single loads and stores of the counters.                *)
(*   SpecView   the same callers of Add beside Model.View, which reads the  *)
(*              live Stats field by field.                                  *)
(*   SpecMain   Engine.Run as main starts it, with the TUI's messages, the  *)
(*              final report and the return of main.                        *)
(*   SpecCli    the same for one configuration, on every command line.      *)
(*   SpecTui    the presenter alone with its clock, a scheduled TickMsg     *)
(*              being delivered eventually.                                 *)
(*   SpecAttack one worker's invocations of Attack, of either attacker,     *)
(*              step by step, each followed by Stats.Add.                   *)
(*   SpecHooks  calls of the pre-hook and the post-hook on every hook       *)
(*              configuration and every state of the script file.           *)
(*   SpecScript the Starlark globals of the scripted attacker and the       *)
(*              threads of the workers' concurrent calls of request().      *)
(*   SpecQuit   the presenter with the messages that still reach Update     *)
(*              after it has issued tea.Quit, and with View.                *)
(*   SpecFair   Engine.Run for no worker or one, with the pacer goroutine   *)
(*              scheduled fairly.                                           *)
(***************************************************************************)
EXTENDS Integers, Sequences, FiniteSets, TLC

\* ------------------------------------------------------------------ bounds
MaxWorkers == 2
MaxTime == 2
MaxSpin == 2
MaxSnaps == 2
MaxCalls == 2
MaxViews == 1
MaxFrames == 1

\* ------------------------------------------------------- program constants
\* time.Second, counted in clock units of the model
Second == 2
\* time.Microsecond, in the nanoseconds of time.Duration
Microsecond == 1000
\* make(chan struct{}): capacity of the ticks channel
TicksCap == 0
\* capacity of time.Ticker.C
TickerCap == 1
\* time.Hour, in the nanoseconds of time.Duration, scaled down so that the
\* range of the latency distribution is a handful of microseconds
Hour == 4000

Workers == 1..MaxWorkers
SnapId == MaxWorkers + 1

\* the per-request timeout of the command line, --timeout, here shorter
\* than the longest duration
Timeout == 1

\* ------------------------------------------------------------------ inputs
WorkerCounts == -1..MaxWorkers
QpsValues == {-1, 0, 1, Second, Second + 1}
Durations == {-1, 0, 1, MaxTime}

\* metrics.Result values an Attacker may return (Latency in nanoseconds)
NoResult == [Code |-> 0, Error |-> "none", Latency |-> 0, BytesIn |-> 0, BytesOut |-> 0]
Results ==
  { [Code |-> 200, Error |-> "",        Latency |-> 1000, BytesIn |-> 1, BytesOut |-> 0],
    [Code |-> 500, Error |-> "",        Latency |-> 2000, BytesIn |-> 0, BytesOut |-> 1],
    [Code |-> 0,   Error |-> "timeout", Latency |-> 0,    BytesIn |-> 0, BytesOut |-> 0] }

\* Results a caller may pass to Stats.Add: those above, and Results at the
\* edges of the success condition and of the range of the distribution
AddArgs ==
  Results \cup
  { [Code |-> 199, Error |-> "",        Latency |-> 500,                BytesIn |-> 0, BytesOut |-> 0],
    [Code |-> 399, Error |-> "",        Latency |-> Hour,               BytesIn |-> 1, BytesOut |-> 1],
    [Code |-> 400, Error |-> "",        Latency |-> Hour + Microsecond, BytesIn |-> 0, BytesOut |-> 0],
    [Code |-> 200, Error |-> "refused", Latency |-> 0 - Microsecond,    BytesIn |-> 0, BytesOut |-> 0] }

\* time.Duration.Microseconds()
Microseconds(d) == d \div Microsecond

\* int64(time.Hour/time.Microsecond): the highest value the distribution
\* tracks
HighestTrackable == Hour \div Microsecond

\* the values a Histogram made by hdrhistogram.New(1, HighestTrackable, 3)
\* has a counter for
LatencyValues == 0..HighestTrackable

\* ------------------------------------------------- the attackers' inputs
\* http methods and urls an attacker may be configured with or a script may
\* return; the second of each is one http.NewRequestWithContext refuses
Methods == {"GET", "BAD METHOD"}
Urls == {"http://t/", ":bad"}

\* the error of http.NewRequestWithContext(ctx, method, url, body), "" if none
BuildError(method, url) ==
  IF method = "BAD METHOD" THEN "net/http: invalid method \"BAD METHOD\""
  ELSE IF url = ":bad" THEN "parse \":bad\": missing protocol scheme"
  ELSE ""

\* what client.Do can come back with: an error, or a response whose body
\* yields len bytes and then ends or fails
DoOutcomes ==
  { [err |-> "dial tcp: connection refused", status |-> 0,   len |-> 0, bodyErr |-> FALSE],
    [err |-> "context deadline exceeded",    status |-> 0,   len |-> 0, bodyErr |-> FALSE],
    [err |-> "",                             status |-> 200, len |-> 1, bodyErr |-> FALSE],
    [err |-> "",                             status |-> 200, len |-> 1, bodyErr |-> TRUE],
    [err |-> "",                             status |-> 500, len |-> 0, bodyErr |-> FALSE] }

NoResp == [err |-> "", status |-> 0, len |-> 0, bodyErr |-> FALSE]

\* values the script's request() can come back with: it raises, it returns
\* something that is no dict, or it returns a dict of string keys
StrVal(v) == [type |-> "string", val |-> v]
DictVal == [type |-> "dict", val |-> ""]
ScriptReturns ==
  { [kind |-> "raise", items |-> << >>, headers |-> {}],
    [kind |-> "string", items |-> << >>, headers |-> {}],
    [kind |-> "dict", headers |-> {},
     items |-> [k \in {"url"} |-> StrVal("http://t/")]],
    [kind |-> "dict", headers |-> {},
     items |-> [k \in {"method"} |-> StrVal("GET")]],
    [kind |-> "dict", headers |-> {<< "Content-Type", "application/json" >>},
     items |-> [k \in {"method", "url", "body", "headers"} |->
                  CASE k = "method" -> StrVal("POST")
                    [] k = "url" -> StrVal("http://t/")
                    [] k = "body" -> StrVal("b")
                    [] k = "headers" -> DictVal]] }

NoValue == [kind |-> "none", items |-> << >>, headers |-> {}]

\* an *http.Request, as far as the attackers set it
NoReq == [method |-> "", url |-> "", body |-> "", headers |-> {}]

\* no Attack invocation is in progress
NoAttack ==
  [kind |-> "none", pc |-> "idle", value |-> NoValue,
   method |-> "", url |-> "", body |-> "", req |-> NoReq, resp |-> NoResp,
   sent |-> << >>, res |-> NoResult, fail |-> "none", ret |-> 0]

\* ------------------------------------------------------------------- hooks
\* hook paths of a config: none, a path with no file, a file without an
\* execute bit, a path os.Stat cannot examine, an executable script
HookPaths == {"", "missing.sh", "plain.txt", "denied/hook.sh", "hook.sh"}

\* os.Stat(path): the error, and the permission bits of the file found
Stat(path) ==
  CASE path = "missing.sh" -> [err |-> "no such file or directory", mode |-> 0]
    [] path = "denied/hook.sh" -> [err |-> "permission denied", mode |-> 0]
    [] path = "plain.txt" -> [err |-> "", mode |-> 420]
    [] OTHER -> [err |-> "", mode |-> 493]

\* os.IsNotExist(err)
IsNotExist(err) == err = "no such file or directory"

\* *config.Config as far as the hooks read it; NilConfig is the nil pointer
NilConfig == [nil |-> TRUE, Pre |-> "", Post |-> ""]
HookConfigs ==
  {NilConfig} \cup { [nil |-> FALSE, Pre |-> a, Post |-> b] : a, b \in HookPaths }

\* exit codes handed to the post-hook
ExitCodes == {0, 1, 10, 255, 0 - 1}

\* what execCommand can come back with
ExecErrors == {"", "exit status 1"}

\* no hook call is in progress
NoHook ==
  [kind |-> "none", pc |-> "idle", cfg |-> NilConfig, exitCode |-> 0,
   execs |-> << >>, err |-> ""]

\* the terminal before the first View
NoScreen == [frame |-> "none", anim |-> 0]

\* the scripted attacker before NewScriptAttacker
NoThread == [pc |-> "idle", mine |-> 0, saw |-> 0, err |-> ""]
NoScript ==
  [loaded |-> FALSE, frozen |-> FALSE, glob |-> 0, calls |-> 0,
   th |-> [w \in Workers |-> NoThread]]

\* ---------------------------------------------------- the command line
\* command lines: --url given or not; --script absent, or naming a script
\* that loads, one that fails to execute, or one without a request global
Scripts == {"", "ok.star", "bad.star", "norequest.star"}
CommandLines == [url : BOOLEAN, script : Scripts]
NoArgs == [url |-> FALSE, script |-> ""]
UrlOnly == [url |-> TRUE, script |-> ""]

\* a final report of which nothing is written yet
NoReport == [lines |-> {}, success |-> 0, successCount |-> 0, total |-> 0]

VARIABLES
  cfg,         \* Engine fields workers, qps, duration
  now,         \* clock, in time units since Run was invoked
  panicked,    \* "none", or what took the process down: "Attack", "NewTicker"
  runPc,       \* position of Engine.Run: "init", "spawn", "wait", "returned"
  runI,        \* loop variable i of the worker-start loop
  parentDone,  \* ctx passed to Run is cancelled
  runDone,     \* runCtx.Done() is closed
  wg,          \* sync.WaitGroup counter
  wpc,         \* position of each worker goroutine
  wres,        \* res held by each worker
  ticksBuf,    \* number of values buffered in the ticks channel
  ticksClosed, \* close(ticks) has run
  ppc,         \* position of the pacer goroutine
  tickerOn,    \* the time.Ticker exists and is not stopped
  nextFire,    \* time at which the ticker fires next
  tickerC,     \* number of values buffered in ticker.C
  stats,       \* the Engine's metrics.Stats
  mu,          \* holder of Stats.mu: 0 free, a worker, or SnapId
  apc,         \* SpecStats: position of each concurrent caller of Add
  ares,        \* SpecStats: argument r of each caller's Add
  atmp,        \* SpecStats: value a caller has loaded and not yet stored
  nCalls,      \* SpecStats: number of Add calls issued
  committed,   \* history: Stats as of the last completed Add
  added,       \* history: how many completed Adds each Result has had
  spc,         \* SpecStats: position of the caller of Snapshot
  snap,        \* SpecStats: value under construction / returned by Snapshot
  snapRef,     \* history: committed, as of the moment Snapshot copied
  nSnaps,      \* SpecStats: number of Snapshot calls made
  snapHist,    \* the Histogram the snapshot's pointer refers to: "nil", "h"
               \* (the one Snapshot made) or "live" (that of the live Stats)
  prevSnap,    \* history: value returned by the Snapshot call before
  addBetween,  \* history: an Add has run since the last Snapshot returned
  vpc,         \* SpecView: position of Model.View in its reads of the Stats
  view,        \* SpecView: the values View has read and renders
  nViews,      \* SpecView: number of View calls made
  viewTorn,    \* history: View has read the Stats between the first store
               \* of an Add and its Unlock
  mainPc,      \* SpecMain: position of the Run closure of main: "none",
               \* "ready" (attacker made), "run" (in eng.Run), "tui" (in
               \* p.Run), "report", "success", "latency" (in
               \* GenerateTextReport), "reported", "exited"
  headless,    \* SpecMain: the --headless flag
  quitting,    \* SpecMain: Model.quitting
  quitCmd,     \* SpecMain: tea.Quit has been issued
  tuiTick,     \* SpecMain: number of TickMsg scheduled and not yet delivered
  percent,     \* SpecMain: the percentage last given to progress.SetPercent
  quitKey,     \* history: a quit key has been pressed
  reportDone,  \* SpecMain: the final report has been produced
  reportReq,   \* SpecMain: the Requests figure of the final report
  report,      \* SpecMain: the final report as far as it is written
  args,        \* SpecMain: the command line, once the Run closure has read it
  exitCode,    \* SpecMain: the exit code of the process
  stderr,      \* SpecMain: the message written to stderr
  atk,         \* SpecAttack: the Attack invocation in progress: its attacker,
               \* position, locals, the requests it has sent, its Result
  nInv,        \* SpecAttack: number of Attack invocations made
  hook,        \* SpecHooks: the RunPreHook or RunPostHook call in progress:
               \* its config, position, the commands executed, its error
  nHooks,      \* SpecHooks: number of hook calls made
  sx,          \* SpecScript: the Starlark state of the scripted attacker: the
               \* global list of the module, whether the globals are frozen,
               \* the thread of each worker's Attack, the number of calls
  screen,      \* SpecQuit: what the last View rendered, and the number of
               \* progress frames Update has applied
  nAttack,     \* history: number of Attacker invocations begun
  lateClaim,   \* history: ticks taken by a worker's select after runDone
  drain,       \* history: an Attack was in flight when runDone was set
  dropped,     \* history: ticks the pacer could not hand over
  delivered,   \* history: ticks the pacer has sent on the ticks channel
  spins        \* history: receives from the closed ticks channel

runVars == << cfg, now, panicked, runPc, runI, wg >>
ctxVars == << parentDone, runDone >>
workerVars == << wpc, wres >>
pacerVars == << ticksBuf, ticksClosed, ppc, tickerOn, nextFire, tickerC >>
statsVars == << stats, mu >>
callerVars == << apc, ares, atmp, nCalls, committed, added >>
snapVars == << spc, snap, snapRef, nSnaps, snapHist, prevSnap, addBetween >>
ghostVars == << nAttack, lateClaim, drain, dropped, delivered, spins >>
viewVars == << vpc, view, nViews, viewTorn >>
mainVars == << mainPc, headless, quitting, quitCmd, tuiTick, percent, quitKey,
              reportDone, reportReq, report, args, exitCode, stderr >>

atkVars == << atk, nInv >>
hookVars == << hook, nHooks >>
scriptVars == << sx >>
screenVars == << screen >>

vars == << runVars, ctxVars, workerVars, pacerVars, statsVars, callerVars,
           snapVars, viewVars, mainVars, atkVars, hookVars, scriptVars, screenVars, ghostVars >>

\* the process runs: nothing has panicked and main has not returned
Alive == panicked = "none" /\ mainPc # "exited"

\* ------------------------------------------------------------ metrics.Stats
\* hdrhistogram.New(...): an empty distribution, kept as value -> count
NewHistogram == [v \in LatencyValues |-> 0]

NewStats ==
  [TotalRequests |-> 0, SuccessCount |-> 0, ErrorCount |-> 0,
   BytesIn |-> 0, BytesOut |-> 0, Histogram |-> NewHistogram]

\* the condition of the if statement of Stats.Add
IsSuccess(r) == r.Error = "" /\ r.Code >= 200 /\ r.Code < 400

\* a success condition that looks at the transport error alone
ClassFieldErrorOnly(r) == IF r.Error = "" THEN "SuccessCount" ELSE "ErrorCount"

\* the counter that the if statement of Stats.Add increments
ClassField(r) == IF IsSuccess(r) THEN "SuccessCount" ELSE "ErrorCount"

\* Histogram.RecordValue(v): a value the Histogram has no counter for is
\* refused with an error and nothing is recorded
RecordValue(h, v) == IF v \in DOMAIN h THEN [h EXCEPT ![v] = @ + 1] ELSE h

\* if r.Latency > 0 { _ = s.Histogram.RecordValue(r.Latency.Microseconds()) }
RecordLatency(h, r) ==
  IF r.Latency > 0 THEN RecordValue(h, Microseconds(r.Latency)) ELSE h

\* h.Merge(src): every sample of src is recorded in h
Merge(h, src) == [v \in DOMAIN h |-> h[v] + (IF v \in DOMAIN src THEN src[v] ELSE 0)]

RECURSIVE SumOver(_, _)
SumOver(f, S) ==
  IF S = {} THEN 0
  ELSE LET x == CHOOSE y \in S : TRUE IN f[x] + SumOver(f, S \ {x})

\* Histogram.TotalCount()
TotalCount(h) == SumOver(h, DOMAIN h)

\* samples recorded with a value of at most v
CountUpTo(h, v) == SumOver(h, {u \in DOMAIN h : u <= v})

\* Histogram.ValueAtQuantile(q): the lowest value at which the running count
\* reaches q percent of the samples, rounded half up; 0 when empty
ValueAtQuantile(h, q) ==
  LET countAt == (2 * q * TotalCount(h) + 100) \div 200
      reached == {v \in DOMAIN h : CountUpTo(h, v) >= countAt /\ CountUpTo(h, v) > 0}
  IN IF reached = {} THEN 0
     ELSE CHOOSE v \in reached : \A u \in reached : v <= u

\* Histogram.Max(): the highest value recorded, 0 when empty
HistMax(h) ==
  LET seen == {v \in DOMAIN h : h[v] > 0}
  IN IF seen = {} THEN 0 ELSE CHOOSE v \in seen : \A u \in seen : u <= v

\* Histogram.Mean(), as truncated by the conversion to time.Duration
HistMean(h) ==
  IF TotalCount(h) = 0 THEN 0
  ELSE SumOver([v \in DOMAIN h |-> v * h[v]], DOMAIN h) \div TotalCount(h)

\* Stats.P99, the P50 of the final report, Stats.P95, Stats.Mean, Stats.Max
P99(s) == ValueAtQuantile(s.Histogram, 99) * Microsecond
P95(s) == ValueAtQuantile(s.Histogram, 95) * Microsecond
P50(s) == ValueAtQuantile(s.Histogram, 50) * Microsecond
Mean(s) == HistMean(s.Histogram) * Microsecond
Max(s) == HistMax(s.Histogram) * Microsecond

\* the body of Stats.Add, run without interference
Add(s, r) ==
  [TotalRequests |-> s.TotalRequests + 1,
   SuccessCount  |-> s.SuccessCount + (IF ClassField(r) = "SuccessCount" THEN 1 ELSE 0),
   ErrorCount    |-> s.ErrorCount + (IF ClassField(r) = "ErrorCount" THEN 1 ELSE 0),
   BytesIn       |-> s.BytesIn + r.BytesIn,
   BytesOut      |-> s.BytesOut + r.BytesOut,
   Histogram     |-> RecordLatency(s.Histogram, r)]

\* a mutex that excludes nobody
MuFreeAlways(m) == TRUE

\* sync.Mutex: Lock proceeds only when the mutex is free
MuFree(m) == m = 0

\* --------------------------------------------------------------------- Init
Init ==
  /\ cfg \in [workers : WorkerCounts, qps : QpsValues, duration : Durations]
  /\ now = 0
  /\ panicked = "none"
  /\ runPc = "init"
  /\ runI = 0
  /\ parentDone = FALSE
  /\ runDone = FALSE
  /\ wg = 0
  /\ wpc = [w \in Workers |-> "none"]
  /\ wres = [w \in Workers |-> NoResult]
  /\ ticksBuf = 0
  /\ ticksClosed = FALSE
  /\ ppc = "none"
  /\ tickerOn = FALSE
  /\ nextFire = 0
  /\ tickerC = 0
  /\ stats = NewStats
  /\ mu = 0
  /\ apc = [a \in Workers |-> "idle"]
  /\ ares = [a \in Workers |-> NoResult]
  /\ atmp = [a \in Workers |-> 0]
  /\ nCalls = 0
  /\ committed = NewStats
  /\ added = [r \in AddArgs |-> 0]
  /\ spc = "idle"
  /\ snap = NewStats
  /\ snapRef = NewStats
  /\ nSnaps = 0
  /\ snapHist = "nil"
  /\ prevSnap = NewStats
  /\ addBetween = FALSE
  /\ vpc = "idle"
  /\ view = [TotalRequests |-> 0, SuccessCount |-> 0, ErrorCount |-> 0, P99 |-> 0]
  /\ nViews = 0
  /\ viewTorn = FALSE
  /\ mainPc = "none"
  /\ headless = FALSE
  /\ quitting = FALSE
  /\ quitCmd = FALSE
  /\ tuiTick = 0
  /\ percent = 0
  /\ quitKey = FALSE
  /\ reportDone = FALSE
  /\ reportReq = 0
  /\ report = NoReport
  /\ args = NoArgs
  /\ exitCode = 0
  /\ stderr = ""
  /\ atk = NoAttack
  /\ nInv = 0
  /\ hook = NoHook
  /\ nHooks = 0
  /\ sx = NoScript
  /\ screen = NoScreen
  /\ nAttack = 0
  /\ lateClaim = 0
  /\ drain = FALSE
  /\ dropped = 0
  /\ delivered = 0
  /\ spins = 0

\* closing a channel wakes every goroutine parked in a select on it, each
\* committed to the case of that channel
WakeParked(pcs, to) == [w \in Workers |-> IF pcs[w] = "parked" THEN to ELSE pcs[w]]

InFlight == \E w \in Workers : wpc[w] = "attack"

\* a cancellation that wakes nobody
CancelRunNoWake ==
  /\ runDone' = TRUE
  /\ wpc' = wpc
  /\ drain' = (drain \/ (~runDone /\ InFlight))

\* runCtx is cancelled: Done is closed and the parked workers wake
CancelRun ==
  /\ runDone' = TRUE
  /\ wpc' = WakeParked(wpc, "ret")
  /\ drain' = (drain \/ (~runDone /\ InFlight))

\* a timer that fires one clock unit early
DeadlineEarly(t, d) == t + 1 >= d

\* the deadline d of runCtx has been reached at time t
DeadlinePassed(t, d) == t >= d

\* a Wait that does not wait
WaitOverAlways(n) == TRUE

\* wg.Wait() returns when the counter is zero
WaitOver(n) == n = 0

\* --------------------------------------------------------------- Engine.Run
\* Run is entered: context.WithTimeout(ctx, e.duration); ticks is made.
\* A deadline that has already passed, or a cancelled parent, gives a
\* context that is done from the start.
RunStart ==
  /\ Alive /\ runPc = "init"
  /\ runPc' = "spawn"
  /\ runI' = 0
  /\ runDone' = (cfg.duration <= 0 \/ parentDone)
  /\ UNCHANGED << cfg, now, panicked, wg, parentDone >>
  /\ UNCHANGED << workerVars, pacerVars, statsVars, callerVars, snapVars, viewVars, mainVars, atkVars, hookVars, scriptVars, screenVars, ghostVars >>

\* a worker-start loop that runs once too often: for i := 0; i <= e.workers
SpawnWorkerOffByOne ==
  /\ Alive /\ runPc = "spawn" /\ runI <= cfg.workers /\ runI < MaxWorkers
  /\ wg' = wg + 1
  /\ wpc' = [wpc EXCEPT ![runI + 1] = "idle"]
  /\ runI' = runI + 1
  /\ UNCHANGED << cfg, now, panicked, runPc, wres >>
  /\ UNCHANGED << ctxVars, pacerVars, statsVars, callerVars, snapVars, viewVars,
                  mainVars, atkVars, hookVars, scriptVars, screenVars, ghostVars >>

\* one iteration of the worker-start loop: wg.Add(1); go func() {...}()
SpawnWorker ==
  /\ Alive /\ runPc = "spawn" /\ runI < cfg.workers
  /\ wg' = wg + 1
  /\ wpc' = [wpc EXCEPT ![runI + 1] = "idle"]
  /\ runI' = runI + 1
  /\ UNCHANGED << cfg, now, panicked, runPc, wres >>
  /\ UNCHANGED << ctxVars, pacerVars, statsVars, callerVars, snapVars, viewVars, mainVars, atkVars, hookVars, scriptVars, screenVars, ghostVars >>

\* the loop is over: go func() { pacer }(); Run goes on to wg.Wait()
SpawnPacer ==
  /\ Alive /\ runPc = "spawn" /\ runI >= cfg.workers
  /\ ppc' = "start"
  /\ runPc' = "wait"
  /\ UNCHANGED << cfg, now, panicked, runI, wg >>
  /\ UNCHANGED << ticksBuf, ticksClosed, tickerOn, nextFire, tickerC >>
  /\ UNCHANGED << ctxVars, workerVars, statsVars, callerVars, snapVars, viewVars, mainVars, atkVars, hookVars, scriptVars, screenVars, ghostVars >>

\* wg.Wait() returns; the deferred cancel() runs; Run returns
RunReturn ==
  /\ Alive /\ runPc = "wait" /\ WaitOver(wg)
  /\ runPc' = "returned"
  /\ CancelRun
  /\ UNCHANGED << cfg, now, panicked, runI, wg, parentDone, wres >>
  /\ UNCHANGED << nAttack, lateClaim, dropped, delivered, spins >>
  /\ UNCHANGED << pacerVars, statsVars, callerVars, snapVars, viewVars, mainVars, atkVars, hookVars, scriptVars, screenVars >>

\* the timer of context.WithTimeout fires
Expire ==
  /\ Alive /\ runPc \in {"spawn", "wait"} /\ ~runDone
  /\ DeadlinePassed(now, cfg.duration)
  /\ CancelRun
  /\ UNCHANGED << parentDone, wres >>
  /\ UNCHANGED << nAttack, lateClaim, dropped, delivered, spins >>
  /\ UNCHANGED << runVars, pacerVars, statsVars, callerVars, snapVars, viewVars, mainVars, atkVars, hookVars, scriptVars, screenVars >>

\* the caller of Run cancels the context it passed in
ExternalCancel ==
  /\ Alive /\ ~parentDone /\ runPc # "returned"
  /\ parentDone' = TRUE
  /\ IF runPc \in {"spawn", "wait"}
       THEN CancelRun
       ELSE UNCHANGED << runDone, wpc, drain >>
  /\ UNCHANGED << nAttack, lateClaim, dropped, delivered, spins, wres >>
  /\ UNCHANGED << runVars, pacerVars, statsVars, callerVars, snapVars, viewVars, mainVars, atkVars, hookVars, scriptVars, screenVars >>

\* ------------------------------------------------------------------- clock
TimerDue ==
  runPc \in {"spawn", "wait"} /\ ~runDone /\ DeadlinePassed(now, cfg.duration)
TickerDue == tickerOn /\ now >= nextFire

\* time passes while the run is on; a timer that is due fires before time
\* passes it
Tick ==
  /\ Alive /\ runPc \in {"spawn", "wait"} /\ ~runDone
  /\ now < MaxTime /\ ~TimerDue /\ ~TickerDue
  /\ now' = now + 1
  /\ UNCHANGED << cfg, panicked, runPc, runI, wg >>
  /\ UNCHANGED << ctxVars, workerVars, pacerVars, statsVars, callerVars, snapVars, viewVars, mainVars, atkVars, hookVars, scriptVars, screenVars,
                  ghostVars >>

\* interval := time.Second / time.Duration(e.qps)
Interval(qps) == Second \div qps

\* the runtime ticker fires: a value is put in ticker.C unless its buffer
\* is full
TickerFire ==
  /\ Alive /\ TickerDue
  /\ tickerC' = IF tickerC < TickerCap THEN tickerC + 1 ELSE tickerC
  /\ nextFire' = nextFire + Interval(cfg.qps)
  /\ UNCHANGED << ticksBuf, ticksClosed, ppc, tickerOn >>
  /\ UNCHANGED << runVars, ctxVars, workerVars, statsVars, callerVars, snapVars, viewVars, mainVars, atkVars, hookVars, scriptVars, screenVars,
                  ghostVars >>

\* -------------------------------------------------------------------- pacer
\* close(ticks): every worker parked in its select receives the zero value
CloseTicks ==
  /\ ticksClosed' = TRUE
  /\ wpc' = WakeParked(wpc, "recv")
  /\ spins' = spins + Cardinality({w \in Workers : wpc[w] = "parked"})

\* the pacer goroutine starts: the qps guard, then time.NewTicker(interval),
\* which panics on a non-positive interval; the deferred close(ticks) runs
\* on the early return
PacerStart ==
  /\ Alive /\ ppc = "start"
  /\ IF cfg.qps <= 0
       THEN /\ ppc' = "exited"
            /\ ticksClosed' = TRUE
            /\ CloseTicks
            /\ UNCHANGED << panicked, tickerOn, nextFire >>
       ELSE IF Interval(cfg.qps) <= 0
         THEN /\ panicked' = "NewTicker"
              /\ UNCHANGED << ppc, ticksClosed, wpc, spins, tickerOn, nextFire >>
         ELSE /\ ppc' = "select"
              /\ tickerOn' = TRUE
              /\ nextFire' = now + Interval(cfg.qps)
              /\ UNCHANGED << panicked, ticksClosed, wpc, spins >>
  /\ UNCHANGED << cfg, now, runPc, runI, wg, wres, ticksBuf, tickerC >>
  /\ UNCHANGED << nAttack, lateClaim, drain, dropped, delivered >>
  /\ UNCHANGED << ctxVars, statsVars, callerVars, snapVars, viewVars, mainVars, atkVars, hookVars, scriptVars, screenVars >>

\* a pacer that closes the channel on cancellation and stays in its loop
PacerDoneStays ==
  /\ Alive /\ ppc = "select" /\ runDone
  /\ ppc' = "select"
  /\ tickerOn' = tickerOn
  /\ CloseTicks
  /\ UNCHANGED << wres, ticksBuf, nextFire, tickerC >>
  /\ UNCHANGED << nAttack, lateClaim, drain, dropped, delivered >>
  /\ UNCHANGED << runVars, ctxVars, statsVars, callerVars, snapVars, viewVars, mainVars, atkVars, hookVars, scriptVars, screenVars >>

\* outer select, case <-runCtx.Done(): return; ticker.Stop() and
\* close(ticks) are deferred
PacerDone ==
  /\ Alive /\ ppc = "select" /\ runDone
  /\ ppc' = "exited"
  /\ tickerOn' = FALSE
  /\ CloseTicks
  /\ UNCHANGED << wres, ticksBuf, nextFire, tickerC >>
  /\ UNCHANGED << nAttack, lateClaim, drain, dropped, delivered >>
  /\ UNCHANGED << runVars, ctxVars, statsVars, callerVars, snapVars, viewVars, mainVars, atkVars, hookVars, scriptVars, screenVars >>

\* outer select, case <-ticker.C
PacerTick ==
  /\ Alive /\ ppc = "select" /\ tickerC > 0
  /\ tickerC' = tickerC - 1
  /\ ppc' = "send"
  /\ UNCHANGED << ticksBuf, ticksClosed, tickerOn, nextFire >>
  /\ UNCHANGED << runVars, ctxVars, workerVars, statsVars, callerVars, snapVars, viewVars, mainVars, atkVars, hookVars, scriptVars, screenVars,
                  ghostVars >>

\* a receiver is parked on the ticks channel
ReceiverParked(pcs) == \E w \in Workers : pcs[w] = "parked"

\* a plain send, ticks <- struct{}{}, with no default case: the pacer waits
\* for a receiver
PacerSendBlocking ==
  /\ Alive /\ ppc = "send"
  /\ ppc' = "select"
  /\ \E w \in Workers :
       /\ wpc[w] = "parked"
       /\ wpc' = [wpc EXCEPT ![w] = "recv"]
  /\ delivered' = delivered + 1
  /\ UNCHANGED << wres, ticksBuf, ticksClosed, tickerOn, nextFire, tickerC >>
  /\ UNCHANGED << nAttack, lateClaim, drain, dropped, spins >>
  /\ UNCHANGED << runVars, ctxVars, statsVars, callerVars, snapVars, viewVars, mainVars, atkVars, hookVars, scriptVars, screenVars >>

\* inner select: case ticks <- struct{}{} hands the value to a parked
\* receiver, or puts it in the buffer when the channel has room; default
\* otherwise
PacerSend ==
  /\ Alive /\ ppc = "send"
  /\ ppc' = "select"
  /\ IF ReceiverParked(wpc)
       THEN /\ \E w \in Workers :
                 /\ wpc[w] = "parked"
                 /\ wpc' = [wpc EXCEPT ![w] = "recv"]
            /\ delivered' = delivered + 1
            /\ UNCHANGED << ticksBuf, dropped >>
       ELSE IF ticksBuf < TicksCap
         THEN /\ ticksBuf' = ticksBuf + 1
              /\ delivered' = delivered + 1
              /\ UNCHANGED << wpc, dropped >>
         ELSE /\ dropped' = dropped + 1
              /\ UNCHANGED << wpc, ticksBuf, delivered >>
  /\ UNCHANGED << wres, ticksClosed, tickerOn, nextFire, tickerC >>
  /\ UNCHANGED << nAttack, lateClaim, drain, spins >>
  /\ UNCHANGED << runVars, ctxVars, statsVars, callerVars, snapVars, viewVars, mainVars, atkVars, hookVars, scriptVars, screenVars >>

\* ------------------------------------------------------------------ workers
\* the cases of the worker's select that are ready
DoneReady == runDone
TicksReady == ticksBuf > 0 \/ ticksClosed

\* the worker's select: among the ready cases one is taken at random; with
\* none ready the goroutine parks on both channels
WorkerSelect(w) ==
  /\ Alive /\ wpc[w] = "idle"
  /\ \/ /\ DoneReady
        /\ wpc' = [wpc EXCEPT ![w] = "ret"]
        /\ UNCHANGED << spins, lateClaim, ticksBuf >>
     \/ /\ TicksReady
        /\ IF ticksBuf > 0
             THEN ticksBuf' = ticksBuf - 1 /\ UNCHANGED spins
             ELSE spins < MaxSpin /\ spins' = spins + 1 /\ UNCHANGED ticksBuf
        /\ wpc' = [wpc EXCEPT ![w] = "recv"]
        /\ lateClaim' = lateClaim + (IF runDone THEN 1 ELSE 0)
     \/ /\ ~DoneReady /\ ~TicksReady
        /\ wpc' = [wpc EXCEPT ![w] = "parked"]
        /\ UNCHANGED << spins, lateClaim, ticksBuf >>
  /\ UNCHANGED << wres, ticksClosed, ppc, tickerOn, nextFire, tickerC >>
  /\ UNCHANGED << nAttack, drain, dropped, delivered >>
  /\ UNCHANGED << runVars, ctxVars, statsVars, callerVars, snapVars, viewVars, mainVars, atkVars, hookVars, scriptVars, screenVars >>

\* case <-runCtx.Done(): return, with the deferred wg.Done()
WorkerReturn(w) ==
  /\ Alive /\ wpc[w] = "ret"
  /\ wpc' = [wpc EXCEPT ![w] = "exited"]
  /\ wg' = wg - 1
  /\ UNCHANGED << cfg, now, panicked, runPc, runI, wres >>
  /\ UNCHANGED << ctxVars, pacerVars, statsVars, callerVars, snapVars, viewVars, mainVars, atkVars, hookVars, scriptVars, screenVars, ghostVars >>

\* runCtx, of context.WithTimeout(ctx, e.duration) at the start of Run, which
\* is at time 0: its deadline and whether it is done
RunCtx == [deadline |-> cfg.duration, done |-> runDone]

\* the context worker w passes to Attack: e.attacker.Attack(runCtx)
AttackCtx(w) == RunCtx

\* case <-ticks: e.attacker.Attack(runCtx) is called
AttackBegin(w) ==
  /\ Alive /\ wpc[w] = "recv"
  /\ wpc' = [wpc EXCEPT ![w] = "attack"]
  /\ nAttack' = nAttack + 1
  /\ UNCHANGED << wres, lateClaim, drain, dropped, delivered, spins >>
  /\ UNCHANGED << runVars, ctxVars, pacerVars, statsVars, callerVars, snapVars, viewVars, mainVars, atkVars, hookVars, scriptVars, screenVars >>

\* a worker that throws away the Result of a request that was in flight when
\* the run was cancelled
AttackReturnDiscard(w) ==
  /\ Alive /\ wpc[w] = "attack"
  /\ IF runDone
       THEN /\ wpc' = [wpc EXCEPT ![w] = "idle"]
            /\ UNCHANGED wres
       ELSE /\ \E r \in Results : wres' = [wres EXCEPT ![w] = r]
            /\ wpc' = [wpc EXCEPT ![w] = "add"]
  /\ UNCHANGED << runVars, ctxVars, pacerVars, statsVars, callerVars, snapVars, viewVars, mainVars, atkVars, hookVars, scriptVars, screenVars,
                  ghostVars >>

\* Attack returns a Result, which the worker holds in res
AttackReturn(w) ==
  /\ Alive /\ wpc[w] = "attack"
  /\ \E r \in Results : wres' = [wres EXCEPT ![w] = r]
  /\ wpc' = [wpc EXCEPT ![w] = "add"]
  /\ UNCHANGED << runVars, ctxVars, pacerVars, statsVars, callerVars, snapVars, viewVars, mainVars, atkVars, hookVars, scriptVars, screenVars,
                  ghostVars >>

\* Attack panics: nothing in the worker goroutine recovers, the process dies
AttackPanic(w) ==
  /\ Alive /\ wpc[w] = "attack"
  /\ panicked' = "Attack"
  /\ UNCHANGED << cfg, now, runPc, runI, wg >>
  /\ UNCHANGED << ctxVars, workerVars, pacerVars, statsVars, callerVars, snapVars, viewVars, mainVars, atkVars, hookVars, scriptVars, screenVars,
                  ghostVars >>

\* e.stats.Add(res): Lock, the body of Add, Unlock; the worker loops
WorkerAdd(w) ==
  /\ Alive /\ wpc[w] = "add" /\ MuFree(mu)
  /\ stats' = Add(stats, wres[w])
  /\ wpc' = [wpc EXCEPT ![w] = "idle"]
  /\ wres' = [wres EXCEPT ![w] = NoResult]
  /\ UNCHANGED mu
  /\ UNCHANGED << runVars, ctxVars, pacerVars, callerVars, snapVars, viewVars, mainVars, atkVars, hookVars, scriptVars, screenVars, ghostVars >>

Worker(w) ==
  \/ WorkerSelect(w) \/ WorkerReturn(w)
  \/ AttackBegin(w) \/ AttackReturn(w) \/ AttackPanic(w)
  \/ WorkerAdd(w)

Pacer == PacerStart \/ PacerDone \/ PacerTick \/ PacerSend

Run == RunStart \/ SpawnWorker \/ SpawnPacer \/ RunReturn

Clock == Tick \/ TickerFire \/ Expire

Next ==
  \/ Run \/ Pacer \/ Clock \/ ExternalCancel
  \/ \E w \in Workers : Worker(w)

Spec == Init /\ [][Next]_vars

\* ---------------------------------------------------------------------------
\* SpecFair: the engine with the scheduling Go gives the pacer goroutine: a
\* goroutine that can run is run, and a select whose Done case stays ready
\* takes it sooner or later; for no worker or one, and a duration of one
\* ---------------------------------------------------------------------------
InitFair ==
  /\ Init
  /\ cfg.workers \in {0, 1}
  /\ cfg.duration = 1

SpecFair ==
  /\ InitFair /\ [][Next]_vars
  /\ WF_vars(PacerStart) /\ WF_vars(PacerTick) /\ WF_vars(PacerSend)
  /\ SF_vars(PacerDone)

\* ---------------------------------------------------------------------------
\* SpecStats: Stats.Add and Stats.Snapshot under concurrent callers
\* ---------------------------------------------------------------------------
engineVars == << runVars, ctxVars, workerVars, pacerVars, ghostVars, mainVars,
                atkVars, hookVars, scriptVars, screenVars >>

\* a goroutine calls s.Add(r)
AddCall(a) ==
  /\ apc[a] = "idle" /\ nCalls < MaxCalls
  /\ \E r \in AddArgs : ares' = [ares EXCEPT ![a] = r]
  /\ apc' = [apc EXCEPT ![a] = "add"]
  /\ nCalls' = nCalls + 1
  /\ UNCHANGED << atmp, committed, added >>
  /\ UNCHANGED << engineVars, viewVars, statsVars, snapVars >>

\* s.mu.Lock()
AddLock(a) ==
  /\ apc[a] = "add" /\ MuFree(mu)
  /\ mu' = a
  /\ apc' = [apc EXCEPT ![a] = "ld_total"]
  /\ addBetween' = TRUE
  /\ UNCHANGED << stats, ares, atmp, nCalls, committed, added >>
  /\ UNCHANGED << spc, snap, snapRef, nSnaps, snapHist, prevSnap >>
  /\ UNCHANGED << engineVars, viewVars >>

\* the load of a counter by an increment statement of Add
AddLoad(a, from, to, f) ==
  /\ apc[a] = from
  /\ atmp' = [atmp EXCEPT ![a] = stats[f]]
  /\ apc' = [apc EXCEPT ![a] = to]
  /\ UNCHANGED << ares, nCalls, committed, added >>
  /\ UNCHANGED << engineVars, viewVars, statsVars, snapVars >>

\* the store of the incremented counter
AddStore(a, from, to, f, d) ==
  /\ apc[a] = from
  /\ stats' = [stats EXCEPT ![f] = atmp[a] + d]
  /\ apc' = [apc EXCEPT ![a] = to]
  /\ UNCHANGED << mu, ares, atmp, nCalls, committed, added >>
  /\ UNCHANGED << engineVars, viewVars, snapVars >>

\* s.TotalRequests++
AddTotalLoad(a) == AddLoad(a, "ld_total", "st_total", "TotalRequests")
AddTotalStore(a) == AddStore(a, "st_total", "ld_class", "TotalRequests", 1)

\* if r.Error == "" && r.Code >= 200 && r.Code < 400 { s.SuccessCount++ }
\* else { s.ErrorCount++ }
AddClassLoad(a) == AddLoad(a, "ld_class", "st_class", ClassField(ares[a]))
AddClassStore(a) == AddStore(a, "st_class", "ld_bin", ClassField(ares[a]), 1)

\* s.BytesIn = r.BytesIn: the byte counter keeps the last Result only
AddBytesInStoreAssign(a) ==
  /\ apc[a] = "st_bin"
  /\ stats' = [stats EXCEPT !.BytesIn = ares[a].BytesIn]
  /\ apc' = [apc EXCEPT ![a] = "ld_bout"]
  /\ UNCHANGED << mu, ares, atmp, nCalls, committed, added >>
  /\ UNCHANGED << engineVars, viewVars, snapVars >>

\* s.BytesIn += r.BytesIn
AddBytesInLoad(a) == AddLoad(a, "ld_bin", "st_bin", "BytesIn")
AddBytesInStore(a) == AddStore(a, "st_bin", "ld_bout", "BytesIn", ares[a].BytesIn)

\* s.BytesOut += r.BytesOut
AddBytesOutLoad(a) == AddLoad(a, "ld_bout", "st_bout", "BytesOut")
AddBytesOutStore(a) == AddStore(a, "st_bout", "hist", "BytesOut", ares[a].BytesOut)

\* if r.Latency > 0 { _ = s.Histogram.RecordValue(r.Latency.Microseconds()) }
AddLatency(a) ==
  /\ apc[a] = "hist"
  /\ stats' = [stats EXCEPT !.Histogram = RecordLatency(@, ares[a])]
  /\ apc' = [apc EXCEPT ![a] = "unlock"]
  /\ UNCHANGED << mu, ares, atmp, nCalls, committed, added >>
  /\ UNCHANGED << engineVars, viewVars, snapVars >>

\* the deferred s.mu.Unlock(); Add returns
AddUnlock(a) ==
  /\ apc[a] = "unlock"
  /\ mu' = 0
  /\ apc' = [apc EXCEPT ![a] = "idle"]
  /\ ares' = [ares EXCEPT ![a] = NoResult]
  /\ atmp' = [atmp EXCEPT ![a] = 0]
  /\ committed' = stats
  /\ added' = [added EXCEPT ![ares[a]] = @ + 1]
  /\ UNCHANGED << stats, nCalls >>
  /\ UNCHANGED << engineVars, viewVars, snapVars >>

\* a Snapshot that reads without taking the mutex
SnapLockNoMutex ==
  /\ spc \in {"idle", "got"} /\ nSnaps < MaxSnaps
  /\ spc' = "merge"
  /\ nSnaps' = nSnaps + 1
  /\ prevSnap' = snap
  /\ snap' = NewStats
  /\ snapRef' = NewStats
  /\ snapHist' = "nil"
  /\ UNCHANGED addBetween
  /\ UNCHANGED << engineVars, viewVars, statsVars, callerVars >>

\* Snapshot: s.mu.Lock()
SnapLock ==
  /\ spc \in {"idle", "got"} /\ nSnaps < MaxSnaps /\ MuFree(mu)
  /\ mu' = SnapId
  /\ spc' = "merge"
  /\ nSnaps' = nSnaps + 1
  /\ prevSnap' = snap
  /\ snap' = NewStats
  /\ snapRef' = NewStats
  /\ snapHist' = "nil"
  /\ UNCHANGED addBetween
  /\ UNCHANGED << engineVars, viewVars, stats, callerVars >>

\* a Snapshot that hands out the live Histogram: Histogram: s.Histogram
SnapMergeAlias ==
  /\ spc = "merge"
  /\ snap' = [snap EXCEPT !.Histogram = stats.Histogram]
  /\ snapHist' = "live"
  /\ snapRef' = committed
  /\ spc' = "copy"
  /\ UNCHANGED << nSnaps, prevSnap, addBetween >>
  /\ UNCHANGED << engineVars, viewVars, statsVars, callerVars >>

\* h := hdrhistogram.New(...); h.Merge(s.Histogram)
SnapMerge ==
  /\ spc = "merge"
  /\ snap' = [snap EXCEPT !.Histogram = Merge(NewHistogram, stats.Histogram)]
  /\ snapHist' = "h"
  /\ snapRef' = committed
  /\ spc' = "copy"
  /\ UNCHANGED << nSnaps, prevSnap, addBetween >>
  /\ UNCHANGED << engineVars, viewVars, statsVars, callerVars >>

\* a Snapshot that takes the counters and leaves the live Stats reset
SnapCopyReset ==
  /\ spc = "copy"
  /\ snap' = [stats EXCEPT !.Histogram = snap.Histogram]
  /\ stats' = [NewStats EXCEPT !.Histogram = stats.Histogram]
  /\ spc' = "unlock"
  /\ UNCHANGED << mu, snapRef, nSnaps, snapHist, prevSnap, addBetween >>
  /\ UNCHANGED << engineVars, viewVars, callerVars >>

\* return Stats{TotalRequests: s.TotalRequests, ..., Histogram: h}
SnapCopy ==
  /\ spc = "copy"
  /\ snap' = [stats EXCEPT !.Histogram = snap.Histogram]
  /\ spc' = "unlock"
  /\ UNCHANGED << snapRef, nSnaps, snapHist, prevSnap, addBetween >>
  /\ UNCHANGED << engineVars, viewVars, statsVars, callerVars >>

\* the deferred s.mu.Unlock(); Snapshot returns snap
SnapUnlock ==
  /\ spc = "unlock"
  /\ mu' = 0
  /\ spc' = "got"
  /\ addBetween' = FALSE
  /\ UNCHANGED << stats, snap, snapRef, nSnaps, snapHist, prevSnap >>
  /\ UNCHANGED << engineVars, viewVars, callerVars >>

Adder(a) ==
  \/ AddCall(a) \/ AddLock(a)
  \/ AddTotalLoad(a) \/ AddTotalStore(a)
  \/ AddClassLoad(a) \/ AddClassStore(a)
  \/ AddBytesInLoad(a) \/ AddBytesInStore(a)
  \/ AddBytesOutLoad(a) \/ AddBytesOutStore(a)
  \/ AddLatency(a) \/ AddUnlock(a)

Snapshot == SnapLock \/ SnapMerge \/ SnapCopy \/ SnapUnlock

InitStats ==
  /\ Init
  /\ cfg = [workers |-> MaxWorkers, qps |-> 1, duration |-> 1]

NextStats ==
  \/ Snapshot
  \/ \E a \in Workers : Adder(a)

SpecStats == InitStats /\ [][NextStats]_vars

\* ---------------------------------------------------------------------------
\* SpecView: Model.View of the live presenter beside concurrent callers of Add
\* ---------------------------------------------------------------------------
statsSideVars == << runVars, ctxVars, workerVars, pacerVars, ghostVars, mainVars,
                   statsVars, callerVars, snapVars, atkVars,
                   hookVars, scriptVars, screenVars >>

\* View is called for a frame: stats := m.engine.Stats() is the pointer to
\* the live Stats, no lock is taken and no Snapshot is made
ViewBegin ==
  /\ vpc \in {"idle", "shown"} /\ nViews < MaxViews
  /\ vpc' = "requests"
  /\ nViews' = nViews + 1
  /\ view' = [TotalRequests |-> 0, SuccessCount |-> 0, ErrorCount |-> 0, P99 |-> 0]
  /\ UNCHANGED viewTorn
  /\ UNCHANGED statsSideVars

\* one read of the live Stats by View
ViewRead(from, to, f, val) ==
  /\ vpc = from
  /\ view' = [view EXCEPT ![f] = val]
  /\ vpc' = to
  /\ viewTorn' = (viewTorn \/ stats # committed)
  /\ UNCHANGED nViews
  /\ UNCHANGED statsSideVars

\* fmt.Sprintf("  Requests: %d\n", stats.TotalRequests)
ViewRequests == ViewRead("requests", "success", "TotalRequests", stats.TotalRequests)
\* fmt.Sprintf("  Success:  %d\n", stats.SuccessCount)
ViewSuccess == ViewRead("success", "errors", "SuccessCount", stats.SuccessCount)
\* fmt.Sprintf("  Errors:   %d\n", stats.ErrorCount)
ViewErrors == ViewRead("errors", "p99", "ErrorCount", stats.ErrorCount)
\* fmt.Sprintf("  P99:      %v\n", stats.P99())
ViewP99 == ViewRead("p99", "shown", "P99", P99(stats))

View == ViewBegin \/ ViewRequests \/ ViewSuccess \/ ViewErrors \/ ViewP99

NextView ==
  \/ View
  \/ \E a \in Workers : Adder(a)

SpecView == InitStats /\ [][NextView]_vars

\* ---------------------------------------------------------------------------
\* SpecMain: the Run closure of main around Engine.Run, headless or with the
\* TUI; the context it passes to Run is context.Background()
\* ---------------------------------------------------------------------------
engineSideVars == << runVars, ctxVars, workerVars, pacerVars, ghostVars,
                    statsVars, callerVars, snapVars, viewVars, atkVars,
                    hookVars, scriptVars, screenVars >>

\* key events the terminal can deliver
Keys == {"q", "ctrl+c", "x"}

\* time.Since(m.start): the Model is made as the run starts
Elapsed == now

\* the error of script.NewScriptAttacker(scriptPath, ...), "" if none
NewScriptAttacker(scriptPath) ==
  CASE scriptPath = "bad.star" -> "script execution failed"
    [] scriptPath = "norequest.star" -> "script must define a 'request()' function"
    [] OTHER -> ""

\* the lines of the final report
HeadLines == {"Duration", "Requests", "Mean QPS"}
LatencyLines == {"P50 Latency", "P95 Latency", "P99 Latency", "Max Latency"}

\* the two decimals of fmt.Sprintf("%.2f%%", float64(a)/float64(b)*100), in
\* hundredths of a percent
Percent2(a, b) == (2 * 10000 * a + b) \div (2 * b)

\* os.Exit(1) after a message on stderr
Exit1(msg) ==
  /\ stderr' = msg
  /\ exitCode' = 1
  /\ mainPc' = "exited"

\* the Run closure picks its attacker: if scriptPath != "" { ... } else { ... },
\* on a command line of lines
MainAttackerOf(lines) ==
  /\ Alive /\ mainPc = "none"
  /\ \E a \in lines :
       /\ args' = a
       /\ IF a.script # ""
            THEN IF NewScriptAttacker(a.script) # ""
                   THEN Exit1("Error loading script")
                   ELSE /\ mainPc' = "ready"
                        /\ UNCHANGED << stderr, exitCode >>
            ELSE IF ~a.url
                   THEN Exit1("Error: --url is required unless --script is provided")
                   ELSE /\ mainPc' = "ready"
                        /\ UNCHANGED << stderr, exitCode >>
  /\ UNCHANGED << headless, quitting, quitCmd, tuiTick, percent, quitKey,
                  reportDone, reportReq, report >>
  /\ UNCHANGED engineSideVars

MainAttacker == MainAttackerOf(CommandLines)

\* galick --url ...
MainAttackerUrl == MainAttackerOf({UrlOnly})

\* if headless { ... eng.Run(ctx) ... } else { go eng.Run(ctx); p.Run() }:
\* Model.Init schedules the first TickMsg
MainStart ==
  /\ Alive /\ mainPc = "ready"
  /\ \E h \in BOOLEAN :
       /\ headless' = h
       /\ mainPc' = IF h THEN "run" ELSE "tui"
       /\ tuiTick' = IF h THEN 0 ELSE 1
  /\ UNCHANGED << quitting, quitCmd, percent, quitKey, reportDone, reportReq,
                  report, args, exitCode, stderr >>
  /\ UNCHANGED engineSideVars

\* Engine.Run is entered once main has called it or started its goroutine
MainRunStart == mainPc \notin {"none", "ready"} /\ RunStart

\* GenerateTextReport, up to the Mean QPS line: stats := eng.Stats() is the
\* live Stats; the Requests line prints its TotalRequests
ReportRequests ==
  /\ Alive /\ mainPc = "report"
  /\ reportReq' = stats.TotalRequests
  /\ report' = [report EXCEPT !.lines = @ \cup HeadLines]
  /\ mainPc' = "success"
  /\ UNCHANGED << headless, quitting, quitCmd, tuiTick, percent, quitKey,
                  reportDone, args, exitCode, stderr >>
  /\ UNCHANGED engineSideVars

\* GenerateTextReport, the Success line
ReportSuccess ==
  /\ Alive /\ mainPc = "success"
  /\ report' = [report EXCEPT
                  !.lines = @ \cup {"Success"},
                  !.successCount = stats.SuccessCount,
                  !.total = stats.TotalRequests,
                  !.success = IF stats.TotalRequests > 0
                                THEN Percent2(stats.SuccessCount, stats.TotalRequests)
                                ELSE 0]
  /\ mainPc' = "latency"
  /\ UNCHANGED << headless, quitting, quitCmd, tuiTick, percent, quitKey,
                  reportDone, reportReq, args, exitCode, stderr >>
  /\ UNCHANGED engineSideVars

\* GenerateTextReport, the latency lines and the return of the string
ReportLatency ==
  /\ Alive /\ mainPc = "latency"
  /\ report' = [report EXCEPT
                  !.lines = IF stats.TotalRequests > 0
                              THEN @ \cup LatencyLines ELSE @]
  /\ reportDone' = TRUE
  /\ mainPc' = "reported"
  /\ UNCHANGED << headless, quitting, quitCmd, tuiTick, percent, quitKey,
                  reportReq, args, exitCode, stderr >>
  /\ UNCHANGED engineSideVars

GenerateTextReport == ReportRequests \/ ReportSuccess \/ ReportLatency

\* headless: eng.Run(ctx) has returned; fmt.Print(GenerateTextReport(...))
HeadlessReport ==
  /\ Alive /\ mainPc = "run" /\ runPc = "returned"
  /\ mainPc' = "report"
  /\ UNCHANGED << headless, quitting, quitCmd, tuiTick, percent, quitKey,
                  reportDone, reportReq, report, args, exitCode, stderr >>
  /\ UNCHANGED engineSideVars

\* a presenter that quits on every key
TuiKeyAnyQuits(k) ==
  /\ Alive /\ mainPc = "tui" /\ ~quitCmd
  /\ quitting' = TRUE
  /\ quitCmd' = TRUE
  /\ quitKey' = TRUE
  /\ UNCHANGED << mainPc, headless, tuiTick, percent, reportDone, reportReq,
                  report, args, exitCode, stderr >>
  /\ UNCHANGED engineSideVars

\* Model.Update, case tea.KeyMsg, for the key k
TuiKey(k) ==
  /\ Alive /\ mainPc = "tui" /\ ~quitCmd
  /\ IF k = "q" \/ k = "ctrl+c"
       THEN /\ quitting' = TRUE
            /\ quitCmd' = TRUE
            /\ quitKey' = TRUE
       ELSE UNCHANGED << quitting, quitCmd, quitKey >>
  /\ UNCHANGED << mainPc, headless, tuiTick, percent, reportDone, reportReq,
                  report, args, exitCode, stderr >>
  /\ UNCHANGED engineSideVars

TuiKeyMsg == \E k \in Keys : TuiKey(k)

\* a presenter whose tick before the end schedules no next tick
TuiTickMsgNoNext ==
  /\ Alive /\ mainPc = "tui" /\ ~quitCmd /\ tuiTick > 0
  /\ IF quitting
       THEN /\ quitCmd' = TRUE
            /\ tuiTick' = tuiTick - 1
            /\ UNCHANGED << quitting, percent >>
       ELSE IF Elapsed >= cfg.duration
         THEN /\ quitting' = TRUE
              /\ quitCmd' = TRUE
              /\ tuiTick' = tuiTick - 1
              /\ UNCHANGED percent
         ELSE /\ percent' = (Elapsed * 100) \div cfg.duration
              /\ tuiTick' = tuiTick - 1
              /\ UNCHANGED << quitting, quitCmd >>
  /\ UNCHANGED << mainPc, headless, quitKey, reportDone, reportReq, report,
                  args, exitCode, stderr >>
  /\ UNCHANGED engineSideVars

\* Model.Update, case TickMsg: the tick delivered is consumed
TuiTickMsg ==
  /\ Alive /\ mainPc = "tui" /\ ~quitCmd /\ tuiTick > 0
  /\ IF quitting
       THEN /\ quitCmd' = TRUE
            /\ tuiTick' = tuiTick - 1
            /\ UNCHANGED << quitting, percent >>
       ELSE IF Elapsed >= cfg.duration
         THEN /\ quitting' = TRUE
              /\ quitCmd' = TRUE
              /\ tuiTick' = tuiTick - 1
              /\ UNCHANGED percent
         ELSE /\ percent' = (Elapsed * 100) \div cfg.duration
              /\ tuiTick' = tuiTick - 1 + 1
              /\ UNCHANGED << quitting, quitCmd >>
  /\ UNCHANGED << mainPc, headless, quitKey, reportDone, reportReq, report,
                  args, exitCode, stderr >>
  /\ UNCHANGED engineSideVars

\* tea.Quit ends the program: the last frame is View with quitting set,
\* which is FinalReport; p.Run returns
TuiFinalView ==
  /\ Alive /\ mainPc = "tui" /\ quitCmd
  /\ mainPc' = "report"
  /\ UNCHANGED << headless, quitting, quitCmd, tuiTick, percent, quitKey,
                  reportDone, reportReq, report, args, exitCode, stderr >>
  /\ UNCHANGED engineSideVars

\* p.Run() returns an error, as when the terminal cannot be set up
TuiFail ==
  /\ Alive /\ mainPc = "tui" /\ ~quitCmd
  /\ Exit1("Error running TUI")
  /\ UNCHANGED << headless, quitting, quitCmd, tuiTick, percent, quitKey,
                  reportDone, reportReq, report, args >>
  /\ UNCHANGED engineSideVars

\* the Run closure returns and main with it: the process ends, whatever
\* goroutines are still running
MainReturn ==
  /\ Alive /\ mainPc = "reported"
  /\ mainPc' = "exited"
  /\ exitCode' = 0
  /\ UNCHANGED << headless, quitting, quitCmd, tuiTick, percent, quitKey,
                  reportDone, reportReq, report, args, stderr >>
  /\ UNCHANGED engineSideVars

Main == MainAttacker \/ MainStart \/ HeadlessReport \/ MainReturn
Tui == TuiKeyMsg \/ TuiTickMsg \/ TuiFinalView \/ TuiFail

EngineRun ==
  \/ MainRunStart \/ SpawnWorker \/ SpawnPacer \/ RunReturn
  \/ Pacer \/ Clock
  \/ \E w \in Workers : Worker(w)

NextMain ==
  \/ MainAttackerUrl \/ MainStart \/ HeadlessReport \/ MainReturn
  \/ Tui \/ GenerateTextReport
  \/ EngineRun

\* the command line of the runs followed here: one worker, a rate of one or
\* two per second, a duration of zero or more
InitMain ==
  /\ Init
  /\ cfg \in [workers : {1}, qps : {1, Second}, duration : {0, 1, MaxTime}]

SpecMain == InitMain /\ [][NextMain]_vars

\* ---------------------------------------------------------------------------
\* SpecCli: the same, on every command line, for one worker, two requests
\* per second and a duration of one
\* ---------------------------------------------------------------------------
NextCli == Main \/ Tui \/ GenerateTextReport \/ EngineRun

InitCli ==
  /\ Init
  /\ cfg = [workers |-> 1, qps |-> Second, duration |-> 1]

SpecCli == InitCli /\ [][NextCli]_vars

\* ---------------------------------------------------------------------------
\* SpecTui: the presenter alone, from the command line to the return of
\* main, with the time of its clock; a TickMsg that is scheduled is
\* delivered
\* ---------------------------------------------------------------------------
\* time passes while the presenter runs
TuiClock ==
  /\ Alive /\ mainPc = "tui"
  /\ now < MaxTime
  /\ now' = now + 1
  /\ UNCHANGED << cfg, panicked, runPc, runI, wg >>
  /\ UNCHANGED << ctxVars, workerVars, pacerVars, statsVars, callerVars,
                  snapVars, viewVars, mainVars, atkVars, hookVars, scriptVars, screenVars, ghostVars >>

\* main on the way to p.Run()
MainStartTui == MainStart /\ ~headless'

NextTui ==
  \/ MainAttacker \/ MainStartTui \/ MainReturn
  \/ Tui \/ GenerateTextReport
  \/ TuiClock

SpecTui == InitMain /\ [][NextTui]_vars /\ WF_vars(TuiTickMsg)

\* ---------------------------------------------------------------------------
\* SpecQuit: the presenter with the messages that reach Update after
\* tea.Quit has been issued and before the program ends, the progress
\* frames, and View
\* ---------------------------------------------------------------------------
presenterSideVars == << runVars, ctxVars, workerVars, pacerVars, ghostVars,
                       statsVars, callerVars, snapVars, viewVars, atkVars,
                       hookVars, scriptVars, mainVars >>

\* a presenter that any other key takes out of quitting
TuiLateKeyResumes(k) ==
  /\ Alive /\ mainPc = "tui" /\ quitCmd
  /\ IF k = "q" \/ k = "ctrl+c"
       THEN /\ quitting' = TRUE
            /\ quitCmd' = TRUE
            /\ quitKey' = TRUE
       ELSE /\ quitting' = FALSE
            /\ UNCHANGED << quitCmd, quitKey >>
  /\ UNCHANGED << mainPc, headless, tuiTick, percent, reportDone, reportReq,
                  report, args, exitCode, stderr >>
  /\ UNCHANGED engineSideVars

\* Model.Update, case tea.KeyMsg, for a key that arrives after tea.Quit
TuiLateKey(k) ==
  /\ Alive /\ mainPc = "tui" /\ quitCmd
  /\ IF k = "q" \/ k = "ctrl+c"
       THEN /\ quitting' = TRUE
            /\ quitCmd' = TRUE
            /\ quitKey' = TRUE
       ELSE UNCHANGED << quitting, quitCmd, quitKey >>
  /\ UNCHANGED << mainPc, headless, tuiTick, percent, reportDone, reportReq,
                  report, args, exitCode, stderr >>
  /\ UNCHANGED engineSideVars

TuiLateKeyMsg == \E k \in Keys : TuiLateKey(k)

\* Model.Update, case TickMsg, for the tick that was scheduled before
\* tea.Quit and arrives after it
TuiLateTick ==
  /\ Alive /\ mainPc = "tui" /\ quitCmd /\ tuiTick > 0
  /\ IF quitting
       THEN /\ quitCmd' = TRUE
            /\ tuiTick' = tuiTick - 1
            /\ UNCHANGED << quitting, percent >>
       ELSE IF Elapsed >= cfg.duration
         THEN /\ quitting' = TRUE
              /\ quitCmd' = TRUE
              /\ tuiTick' = tuiTick - 1
              /\ UNCHANGED percent
         ELSE /\ percent' = (Elapsed * 100) \div cfg.duration
              /\ tuiTick' = tuiTick - 1 + 1
              /\ UNCHANGED << quitting, quitCmd >>
  /\ UNCHANGED << mainPc, headless, quitKey, reportDone, reportReq, report,
                  args, exitCode, stderr >>
  /\ UNCHANGED engineSideVars

\* Model.Update, case progress.FrameMsg: the progress bar takes the frame
TuiFrameMsg ==
  /\ Alive /\ mainPc = "tui"
  /\ screen.anim < MaxFrames
  /\ screen' = [screen EXCEPT !.anim = @ + 1]
  /\ UNCHANGED presenterSideVars

\* Model.View: the final report when quitting, the live statistics otherwise
TuiView ==
  /\ Alive /\ mainPc = "tui"
  /\ screen' = [screen EXCEPT !.frame = IF quitting THEN "final" ELSE "live"]
  /\ UNCHANGED presenterSideVars

NextQuit ==
  \/ NextTui
  \/ TuiLateKeyMsg \/ TuiLateTick \/ TuiFrameMsg \/ TuiView

SpecQuit == InitMain /\ [][NextQuit]_vars

\* ---------------------------------------------------------------------------
\* SpecAttack: one worker's invocations of Attacker.Attack, of the static
\* attacker (pkg/protocols/loadhttp) and of the scripted one (pkg/script),
\* each followed by the worker's Stats.Add of the Result
\* ---------------------------------------------------------------------------
attackSideVars == << runVars, ctxVars, workerVars, pacerVars, ghostVars,
                    mainVars, callerVars, snapVars, viewVars, hookVars, scriptVars, screenVars >>

\* uint16(resp.StatusCode)
Uint16(n) == n % 65536

\* syntax.Quote: starlark.String.String() is the string as a Starlark literal
Quote(s) == "\"" \o s \o "\""

\* starlark.String.String()
KeyString(k) == Quote(k)

\* the loop over dict.Items(): the value of the item whose k.String() is
\* name and whose value is a starlark.String, else the local's initial value
Field(d, name, initial) ==
  IF \E k \in DOMAIN d : KeyString(k) = name /\ d[k].type = "string"
  THEN d[CHOOSE k \in DOMAIN d : KeyString(k) = name /\ d[k].type = "string"].val
  ELSE initial

\* Result{Timestamp: start, Error: ..., Latency: time.Since(start)}
ErrorResult(e) ==
  [Code |-> 0, Error |-> e, Latency |-> Microsecond, BytesIn |-> 0, BytesOut |-> 0]

\* a worker calls attacker.Attack(ctx): the static attacker with the method
\* and url it was made with, or the scripted one
AtkCall ==
  /\ atk.pc = "idle"
  /\ nInv < MaxCalls
  /\ \/ \E m \in Methods, u \in Urls :
          atk' = [NoAttack EXCEPT !.kind = "http", !.pc = "build",
                                  !.method = m, !.url = u]
     \/ atk' = [NoAttack EXCEPT !.kind = "script", !.pc = "call"]
  /\ nInv' = nInv + 1
  /\ UNCHANGED << attackSideVars, statsVars >>

\* starlark.Call(thread, a.requestFn, nil, nil) and its error branch
ScriptCall ==
  /\ atk.pc = "call"
  /\ \E v \in ScriptReturns :
       IF v.kind = "raise"
       THEN atk' = [atk EXCEPT !.value = v, !.fail = "raise", !.ret = @ + 1,
                               !.res = ErrorResult("script error: boom"),
                               !.pc = "ret"]
       ELSE atk' = [atk EXCEPT !.value = v, !.pc = "dict"]
  /\ UNCHANGED << attackSideVars, statsVars, nInv >>

\* dict, ok := ret.(*starlark.Dict) and its !ok branch
ScriptDict ==
  /\ atk.pc = "dict"
  /\ IF atk.value.kind # "dict"
     THEN atk' = [atk EXCEPT !.fail = "nondict", !.ret = @ + 1,
                             !.res = ErrorResult("script must return a dict"),
                             !.pc = "ret"]
     ELSE atk' = [atk EXCEPT !.pc = "items"]
  /\ UNCHANGED << attackSideVars, statsVars, nInv >>

\* method := "GET"; url := ""; var body io.Reader; the loop over dict.Items()
ScriptItems ==
  /\ atk.pc = "items"
  /\ atk' = [atk EXCEPT !.method = Field(atk.value.items, "method", "GET"),
                        !.url = Field(atk.value.items, "url", ""),
                        !.body = Field(atk.value.items, "body", ""),
                        !.pc = "url"]
  /\ UNCHANGED << attackSideVars, statsVars, nInv >>

\* a script attacker that sends whatever url it has
ScriptUrlUnchecked ==
  /\ atk.pc = "url"
  /\ atk' = [atk EXCEPT !.fail = IF "url" \in DOMAIN atk.value.items
                                 THEN @ ELSE "nourl",
                        !.pc = "build"]
  /\ UNCHANGED << attackSideVars, statsVars, nInv >>

\* if url == "" { return Result{... Error: "script returned empty url"} }
ScriptUrl ==
  /\ atk.pc = "url"
  /\ IF atk.url = ""
     THEN atk' = [atk EXCEPT !.fail = IF "url" \in DOMAIN atk.value.items
                                      THEN "emptyurl" ELSE "nourl",
                             !.ret = @ + 1,
                             !.res = ErrorResult("script returned empty url"),
                             !.pc = "ret"]
     ELSE atk' = [atk EXCEPT !.pc = "build"]
  /\ UNCHANGED << attackSideVars, statsVars, nInv >>

\* http.NewRequestWithContext(ctx, method, url, body) and its error branch
AtkBuild ==
  /\ atk.pc = "build"
  /\ IF BuildError(atk.method, atk.url) # ""
     THEN atk' = [atk EXCEPT !.fail = "build", !.ret = @ + 1,
                             !.res = ErrorResult(BuildError(atk.method, atk.url)),
                             !.pc = "ret"]
     ELSE atk' = [atk EXCEPT !.req = [method |-> atk.method, url |-> atk.url,
                                      body |-> atk.body, headers |-> {}],
                             !.pc = "do"]
  /\ UNCHANGED << attackSideVars, statsVars, nInv >>

\* a client.Do whose error comes back as a Result without one
AtkDoSwallow ==
  /\ atk.pc = "do"
  /\ \E o \in DoOutcomes :
       IF o.err # ""
       THEN atk' = [atk EXCEPT !.sent = Append(@, atk.req), !.fail = "do",
                               !.ret = @ + 1,
                               !.res = ErrorResult(""),
                               !.pc = "ret"]
       ELSE atk' = [atk EXCEPT !.sent = Append(@, atk.req), !.resp = o,
                               !.pc = "copy"]
  /\ UNCHANGED << attackSideVars, statsVars, nInv >>

\* resp, err := client.Do(req) and its error branch
AtkDo ==
  /\ atk.pc = "do"
  /\ \E o \in DoOutcomes :
       IF o.err # ""
       THEN atk' = [atk EXCEPT !.sent = Append(@, atk.req), !.fail = "do",
                               !.ret = @ + 1,
                               !.res = ErrorResult(o.err),
                               !.pc = "ret"]
       ELSE atk' = [atk EXCEPT !.sent = Append(@, atk.req), !.resp = o,
                               !.pc = "copy"]
  /\ UNCHANGED << attackSideVars, statsVars, nInv >>

\* written, _ := io.Copy(io.Discard, resp.Body); the final Result
AtkCopy ==
  /\ atk.pc = "copy"
  /\ atk' = [atk EXCEPT !.fail = IF atk.resp.bodyErr THEN "body" ELSE @,
                        !.ret = @ + 1,
                        !.res = [Code |-> Uint16(atk.resp.status), Error |-> "",
                                 Latency |-> Microsecond,
                                 BytesIn |-> atk.resp.len, BytesOut |-> 0],
                        !.pc = "ret"]
  /\ UNCHANGED << attackSideVars, statsVars, nInv >>

\* the worker's e.stats.Add(res) on the Result Attack returned
AtkAdd ==
  /\ atk.pc = "ret"
  /\ stats' = Add(stats, atk.res)
  /\ atk' = [atk EXCEPT !.pc = "idle"]
  /\ UNCHANGED << attackSideVars, mu, nInv >>

HttpAttack == AtkBuild \/ AtkDo \/ AtkCopy
ScriptAttack == ScriptCall \/ ScriptDict \/ ScriptItems \/ ScriptUrl

NextAttack == AtkCall \/ HttpAttack \/ ScriptAttack \/ AtkAdd

SpecAttack == Init /\ [][NextAttack]_vars

\* ---------------------------------------------------------------------------
\* SpecHooks: calls of HookRunner.RunPreHook and RunPostHook (internal/hooks),
\* one after the other
\* ---------------------------------------------------------------------------
hookSideVars == << runVars, ctxVars, workerVars, pacerVars, ghostVars, mainVars,
                  statsVars, callerVars, snapVars, viewVars, atkVars,
                  scriptVars, screenVars >>

\* info.Mode()&0o111 != 0: one of the three execute bits is set
Executable(mode) == \E bit \in {1, 8, 64} : (mode \div bit) % 2 = 1

\* one decimal digit
DigitString(d) == SubSeq("0123456789", d + 1, d + 1)

\* strconv.Itoa of a natural number
RECURSIVE ItoaNat(_)
ItoaNat(n) ==
  IF n < 10 THEN DigitString(n)
  ELSE ItoaNat(n \div 10) \o DigitString(n % 10)

\* strconv.Itoa
Itoa(n) == IF n < 0 THEN "-" \o ItoaNat(0 - n) ELSE ItoaNat(n)

\* cfg.Hooks.Pre or cfg.Hooks.Post
HookPath(h) == IF h.kind = "pre" THEN h.cfg.Pre ELSE h.cfg.Post

\* gerrors.ErrPreHookNotFound / ErrPostHookNotFound
ErrHookNotFound(kind) == kind \o "-hook script not found"

\* gerrors.ErrPreHookNotExec / ErrPostHookNotExec
ErrHookNotExec(kind) == kind \o "-hook script is not executable"

\* gerrors.WithPreHookNotFoundDetails / WithPostHookNotFoundDetails
WithHookNotFoundDetails(kind, path) == ErrHookNotFound(kind) \o ": " \o path

\* a caller runs RunPreHook(cfg) or RunPostHook(cfg, exitCode)
HookCall ==
  /\ hook.pc \in {"idle", "done"}
  /\ nHooks < MaxCalls
  /\ \E c \in HookConfigs :
       \/ hook' = [NoHook EXCEPT !.kind = "pre", !.pc = "check", !.cfg = c]
       \/ \E e \in ExitCodes :
            hook' = [NoHook EXCEPT !.kind = "post", !.pc = "check", !.cfg = c,
                                   !.exitCode = e]
  /\ nHooks' = nHooks + 1
  /\ UNCHANGED hookSideVars

\* a hook runner that does not look at the permission bits
HookCheckNoMode ==
  /\ hook.pc = "check"
  /\ hook' =
       IF hook.cfg.nil
         THEN [hook EXCEPT !.err = "config is nil", !.pc = "done"]
       ELSE IF HookPath(hook) = ""
         THEN [hook EXCEPT !.pc = "done"]
       ELSE IF IsNotExist(Stat(HookPath(hook)).err)
         THEN [hook EXCEPT !.err = WithHookNotFoundDetails(hook.kind, HookPath(hook)),
                           !.pc = "done"]
       ELSE IF Stat(HookPath(hook)).err # ""
         THEN [hook EXCEPT !.err = "failed to check " \o hook.kind \o "-hook script: "
                                     \o Stat(HookPath(hook)).err,
                           !.pc = "done"]
       ELSE [hook EXCEPT !.pc = "exec"]
  /\ UNCHANGED << hookSideVars, nHooks >>

\* the checks before the command: cfg == nil, the empty path, os.Stat,
\* the execute bits
HookCheck ==
  /\ hook.pc = "check"
  /\ hook' =
       IF hook.cfg.nil
         THEN [hook EXCEPT !.err = "config is nil", !.pc = "done"]
       ELSE IF HookPath(hook) = ""
         THEN [hook EXCEPT !.pc = "done"]
       ELSE IF IsNotExist(Stat(HookPath(hook)).err)
         THEN [hook EXCEPT !.err = WithHookNotFoundDetails(hook.kind, HookPath(hook)),
                           !.pc = "done"]
       ELSE IF Stat(HookPath(hook)).err # ""
         THEN [hook EXCEPT !.err = "failed to check " \o hook.kind \o "-hook script: "
                                     \o Stat(HookPath(hook)).err,
                           !.pc = "done"]
       ELSE IF ~Executable(Stat(HookPath(hook)).mode)
         THEN [hook EXCEPT !.err = ErrHookNotExec(hook.kind), !.pc = "done"]
       ELSE [hook EXCEPT !.pc = "exec"]
  /\ UNCHANGED << hookSideVars, nHooks >>

\* h.execCommand(cfg.Hooks.Pre) or
\* h.execCommand(cfg.Hooks.Post, strconv.Itoa(exitCode)), and its error
HookExec ==
  /\ hook.pc = "exec"
  /\ \E e \in ExecErrors :
       hook' = [hook EXCEPT
                  !.execs = Append(@, [command |-> HookPath(hook),
                                       args |-> IF hook.kind = "pre"
                                                  THEN << >>
                                                  ELSE << Itoa(hook.exitCode) >>]),
                  !.err = IF e = "" THEN ""
                          ELSE ErrHookNotExec(hook.kind) \o ": " \o e,
                  !.pc = "done"]
  /\ UNCHANGED << hookSideVars, nHooks >>

NextHooks == HookCall \/ HookCheck \/ HookExec

SpecHooks == Init /\ [][NextHooks]_vars

\* ---------------------------------------------------------------------------
\* SpecScript: the Starlark state of the scripted attacker: the module
\* globals made once by NewScriptAttacker, and the thread of each Attack,
\* for a script whose request() reads and appends to a global list and
\* appends to a list of its own
\* ---------------------------------------------------------------------------
scriptSideVars == << runVars, ctxVars, workerVars, pacerVars, ghostVars, mainVars,
                    statsVars, callerVars, snapVars, viewVars, atkVars, hookVars,
                    screenVars >>

\* a module initialised and left mutable, as Program.Init returns it
ScriptLoadUnfrozen ==
  /\ ~sx.loaded
  /\ sx' = [sx EXCEPT !.loaded = TRUE, !.frozen = FALSE, !.glob = 0]
  /\ UNCHANGED scriptSideVars

\* script.NewScriptAttacker: starlark.ExecFileOptions runs the top level of
\* the file, which makes the global list, and freezes the globals it returns
ScriptLoad ==
  /\ ~sx.loaded
  /\ sx' = [sx EXCEPT !.loaded = TRUE, !.frozen = TRUE, !.glob = 0]
  /\ UNCHANGED scriptSideVars

\* Attack by worker w: thread := &starlark.Thread{Name: "worker"};
\* starlark.Call(thread, s.requestFn, nil, nil) enters request() with its
\* own locals
ScriptThread(w) ==
  /\ sx.loaded /\ sx.th[w].pc = "idle"
  /\ sx.calls < MaxCalls
  /\ sx' = [sx EXCEPT !.calls = @ + 1,
                      !.th[w] = [pc |-> "read", mine |-> 0, saw |-> 0, err |-> ""]]
  /\ UNCHANGED scriptSideVars

\* request() reads the global list
ScriptRead(w) ==
  /\ sx.th[w].pc = "read"
  /\ sx' = [sx EXCEPT !.th[w].saw = sx.glob, !.th[w].pc = "local"]
  /\ UNCHANGED scriptSideVars

\* request() appends to a list it has made itself
ScriptAppendLocal(w) ==
  /\ sx.th[w].pc = "local"
  /\ sx' = [sx EXCEPT !.th[w].mine = @ + 1, !.th[w].pc = "global"]
  /\ UNCHANGED scriptSideVars

\* request() appends to the global list: a frozen list refuses, and the
\* call fails with that error
ScriptAppendGlobal(w) ==
  /\ sx.th[w].pc = "global"
  /\ IF sx.frozen
       THEN sx' = [sx EXCEPT !.th[w].err = "cannot append to frozen list",
                             !.th[w].pc = "ret"]
       ELSE sx' = [sx EXCEPT !.glob = @ + 1, !.th[w].pc = "ret"]
  /\ UNCHANGED scriptSideVars

\* starlark.Call returns; Attack goes on with the value or the error
ScriptCallReturn(w) ==
  /\ sx.th[w].pc = "ret"
  /\ sx' = [sx EXCEPT !.th[w].pc = "idle"]
  /\ UNCHANGED scriptSideVars

ScriptRun(w) ==
  \/ ScriptThread(w) \/ ScriptRead(w) \/ ScriptAppendLocal(w)
  \/ ScriptAppendGlobal(w) \/ ScriptCallReturn(w)

NextScript == ScriptLoad \/ \E w \in Workers : ScriptRun(w)

SpecScript == Init /\ [][NextScript]_vars

\* ---------------------------------------------------------------------------
\* Properties
\* ---------------------------------------------------------------------------
NoAddInProgress == \A a \in Workers : apc[a] \in {"idle", "add"}
Balanced(s) == s.SuccessCount + s.ErrorCount = s.TotalRequests
Busy == {w \in Workers : wpc[w] \in {"attack", "add"}}
\* a RunConfig as the engine expects it: positive rate, workers and duration
ValidConfig == cfg.qps >= 1 /\ cfg.workers >= 1 /\ cfg.duration > 0

\* C1: whenever no Add is between its Lock and its Unlock, whatever the
\* interleaving of the concurrent callers has been, SuccessCount + ErrorCount
\* equals TotalRequests.
C1_BalancedWhenQuiet == NoAddInProgress => Balanced(stats)

C1_Witness ==
  /\ NoAddInProgress
  /\ stats.TotalRequests = MaxCalls
  /\ stats.SuccessCount >= 1 /\ stats.ErrorCount >= 1

\* C2: the value Snapshot returns is the Stats as left by the last completed
\* Add at the moment of the copy: every Add is in all of its fields or in
\* none, so success + error = total and the distribution holds no more
\* samples than there were requests.
C2_SnapshotAtomic ==
  spc \in {"unlock", "got"} =>
    /\ snap = snapRef
    /\ Balanced(snap)
    /\ TotalCount(snap.Histogram) <= snap.TotalRequests

C2_Witness ==
  /\ spc = "unlock"
  /\ snap.TotalRequests >= 1
  /\ \E a \in Workers : apc[a] = "add"

\* C3: with qps <= 0, workers >= 1 and duration > 0 the Attacker is never
\* invoked, TotalRequests stays 0, and Run has returned without time passing.
C3_ZeroRateDoesNothing ==
  (cfg.qps <= 0 /\ cfg.workers >= 1 /\ cfg.duration > 0) =>
    /\ nAttack = 0
    /\ stats.TotalRequests = 0
    /\ runPc = "returned" => now = 0

\* C4: in a run with a positive rate, worker count and duration, an Attacker
\* invocation begins only while the run context is not yet cancelled.
C4_NoAttackAfterCancel ==
  [][ValidConfig =>
       \A w \in Workers : (wpc[w] # "attack" /\ wpc'[w] = "attack") => ~runDone]_vars

\* C5: every Attacker invocation begun is either still held by its worker or
\* has been added exactly once; a worker leaves holding no Result; and once
\* Run has returned TotalRequests equals the number of invocations.
C5_EveryAttackAdded ==
  /\ nAttack = stats.TotalRequests + Cardinality(Busy)
  /\ \A w \in Workers : wpc[w] \in {"ret", "exited"} => wres[w] = NoResult
  /\ runPc = "returned" => stats.TotalRequests = nAttack

C5_Witness ==
  /\ runPc = "returned"
  /\ drain
  /\ nAttack >= 2
  /\ stats.TotalRequests = nAttack

\* C6: a send attempted while no worker is parked on the ticks channel is
\* always possible at once, leaves the pacer back at its outer select, wakes
\* no worker and starts no request, and no tick is ever buffered.
C6_DropNeitherBlocksNorBuffers ==
  /\ [](ticksBuf = 0)
  /\ []((Alive /\ ppc = "send") => ENABLED PacerSend)
  /\ [][(ppc = "send" /\ ~ReceiverParked(wpc) /\ ppc' # "send") =>
          /\ ppc' = "select"
          /\ wpc' = wpc
          /\ nAttack' = nAttack
          /\ dropped' = dropped + 1]_vars

C6_Witness ==
  /\ dropped >= 1
  /\ cfg.workers >= 1
  /\ runPc = "returned"
  /\ ppc = "exited"
  /\ nAttack = 0

\* C7: when Run has returned every worker it started has exited, and from
\* then on no Attack begins and the Stats do not change.
C7_ReturnAfterWorkers ==
  /\ [](runPc = "returned" =>
          \A w \in Workers : wpc[w] = IF w <= cfg.workers THEN "exited" ELSE "none")
  /\ [][runPc = "returned" => (nAttack' = nAttack /\ stats' = stats)]_vars

C7_Witness ==
  /\ runPc = "returned"
  /\ cfg.workers = MaxWorkers
  /\ stats.TotalRequests >= MaxWorkers

\* C8: with qps >= 1, workers >= 1 and no external cancellation Run has not
\* returned before the duration has elapsed, and the run context is done
\* only once the duration has elapsed or the caller has cancelled.
C8_NoEarlyReturn ==
  /\ (runPc = "returned" /\ cfg.qps >= 1 /\ cfg.workers >= 1 /\ ~parentDone)
       => now >= cfg.duration
  /\ (runPc \in {"spawn", "wait"} /\ runDone /\ ~parentDone) => now >= cfg.duration

C8_Witness ==
  /\ runPc = "returned"
  /\ cfg.qps >= 1 /\ cfg.workers >= 1 /\ ~parentDone
  /\ cfg.duration = MaxTime
  /\ now = MaxTime
  /\ nAttack >= 1

\* C9: in a run with a positive rate, worker count and duration, once
\* cancellation is set a worker finishes at most the request it holds: its
\* select never takes another tick.
C9_AtMostTheHeldRequest == ValidConfig => lateClaim = 0

\* C10: a panic inside an Attacker invocation does not take the process
\* down.
C10_PanicContained == panicked # "Attack"

\* ---------------------------------------------------------------------------
\* Properties of the Stats operations
\* ---------------------------------------------------------------------------
Counters == {"TotalRequests", "SuccessCount", "ErrorCount", "BytesIn", "BytesOut"}
Quantiles == {50, 95, 99}

\* the number of completed Adds, in the bag b, of the Results in S
CountIn(b, S) == SumOver(b, S)

\* C13: a completed Add has raised TotalRequests by exactly 1, SuccessCount
\* by 1 iff the Result has no error and a code in 200..399 and ErrorCount by
\* 1 otherwise, and the byte counters by the Result's bytes; and no step
\* ever lowers a counter.
C13_AddEffect ==
  /\ [][\A a \in Workers :
          (apc[a] = "unlock" /\ apc'[a] = "idle") =>
            LET r == ares[a]
                ok == r.Error = "" /\ r.Code >= 200 /\ r.Code < 400
            IN /\ stats.TotalRequests = committed.TotalRequests + 1
               /\ stats.SuccessCount = committed.SuccessCount + (IF ok THEN 1 ELSE 0)
               /\ stats.ErrorCount = committed.ErrorCount + (IF ok THEN 0 ELSE 1)
               /\ stats.BytesIn = committed.BytesIn + r.BytesIn
               /\ stats.BytesOut = committed.BytesOut + r.BytesOut]_vars
  /\ [][\A f \in Counters : stats'[f] >= stats[f]]_vars

C13_Witness ==
  /\ NoAddInProgress
  /\ stats.TotalRequests = 2
  /\ stats.SuccessCount = 1 /\ stats.ErrorCount = 1
  /\ \E r \in AddArgs : r.Code = 500 /\ r.Error = "" /\ added[r] = 1
  /\ \E r \in AddArgs : r.Code = 399 /\ added[r] = 1

\* C14: whenever no Add is in progress the distribution holds exactly one
\* sample for every completed Add of a Result with latency > 0, whatever
\* latency the Result carried.
C14_EveryLatencyRecorded ==
  NoAddInProgress =>
    TotalCount(stats.Histogram) = CountIn(added, {r \in AddArgs : r.Latency > 0})

\* the Stats value the holder of the snapshot reads through it
SnapValue ==
  [snap EXCEPT !.Histogram = IF snapHist = "live" THEN stats.Histogram ELSE @]
Figures(s) ==
  << [q \in Quantiles |-> ValueAtQuantile(s.Histogram, q)], Mean(s), Max(s) >>

\* C15: once Snapshot has returned, no step of a later Add changes what the
\* snapshot shows: its counters and its distribution, and with the
\* distribution the quantiles, mean and max read from it, stay as they were.
C15_SnapshotIndependent ==
  [][(spc = "got" /\ spc' = "got") => SnapValue' = SnapValue]_vars

C15_Witness ==
  /\ spc = "got"
  /\ NoAddInProgress
  /\ snap.TotalRequests >= 1
  /\ stats.TotalRequests > snap.TotalRequests
  /\ TotalCount(stats.Histogram) > TotalCount(snap.Histogram)
  /\ Max(stats) > Max(snap)

\* C16: no step of Snapshot changes the live Stats; a Snapshot with no Add
\* since the Snapshot before returns the same counters and the same
\* quantiles as that one; and a Snapshot of Stats nothing was added to is an
\* empty Stats.
C16_SnapshotReadsOnly ==
  /\ [][mu = SnapId => stats' = stats]_vars
  /\ []((spc = "unlock" /\ nSnaps >= 2 /\ ~addBetween) =>
          (snap = prevSnap /\ Figures(snap) = Figures(prevSnap)))
  /\ []((spc = "unlock" /\ nCalls = 0) =>
          (snap = NewStats /\ Figures(snap) = Figures(NewStats)))

C16_Witness ==
  /\ spc = "unlock" /\ nSnaps >= 2 /\ ~addBetween
  /\ snap.TotalRequests >= 1
  /\ TotalCount(snap.Histogram) >= 1

\* what the Stats hold after the Adds of the bag b, as a function of the bag
\* alone
Totals(b) ==
  [TotalRequests |-> CountIn(b, AddArgs),
   SuccessCount  |-> CountIn(b, {r \in AddArgs : r.Error = "" /\ r.Code >= 200 /\ r.Code < 400}),
   ErrorCount    |-> CountIn(b, {r \in AddArgs : ~(r.Error = "" /\ r.Code >= 200 /\ r.Code < 400)}),
   BytesIn       |-> SumOver([r \in AddArgs |-> b[r] * r.BytesIn], AddArgs),
   BytesOut      |-> SumOver([r \in AddArgs |-> b[r] * r.BytesOut], AddArgs),
   Histogram     |-> [v \in LatencyValues |->
                        CountIn(b, {r \in AddArgs : r.Latency > 0 /\ Microseconds(r.Latency) = v})]]

\* C17: whenever no Add is in progress the counters, the byte totals and the
\* distribution are a function of the multiset of Results added, whatever
\* the order in which the callers took the mutex.
C17_OrderIrrelevant == NoAddInProgress => stats = Totals(added)

C17_Witness ==
  /\ NoAddInProgress
  /\ stats.TotalRequests = MaxCalls
  /\ Cardinality({r \in AddArgs : added[r] >= 1}) >= 2
  /\ stats.BytesIn >= 2
  /\ Cardinality({v \in LatencyValues : stats.Histogram[v] >= 1}) >= 2

\* ---------------------------------------------------------------------------
\* Properties of degenerate runs, of the presenter and of the final report
\* ---------------------------------------------------------------------------
\* C11: with workers <= 0, qps >= 1 and duration > 0 no worker is started,
\* the Attacker is never invoked, TotalRequests stays 0, and Run waits for
\* nothing: once the pacer is started its wg.Wait can return at once.
C11_NoWorkersReturnsAtOnce ==
  (cfg.workers <= 0 /\ cfg.qps >= 1 /\ cfg.duration > 0) =>
    /\ nAttack = 0
    /\ stats.TotalRequests = 0
    /\ wg = 0 /\ \A w \in Workers : wpc[w] = "none"
    /\ (Alive /\ runPc = "wait") => ENABLED RunReturn

C11_Witness ==
  /\ cfg.workers <= 0 /\ cfg.qps >= 1 /\ cfg.duration = MaxTime
  /\ runPc = "returned"
  /\ now = 0 /\ ~parentDone
  /\ ppc = "exited"

\* C12: with duration <= 0, qps >= 1 and workers >= 1 the Attacker is never
\* invoked and TotalRequests stays 0, however the pacer and the workers
\* interleave.
C12_ZeroDurationDoesNothing ==
  (cfg.duration <= 0 /\ cfg.qps >= 1 /\ cfg.workers >= 1) =>
    /\ nAttack = 0
    /\ stats.TotalRequests = 0

\* C18: View reads the Stats only while no Add is partially applied, and
\* the Requests, Success and Errors it renders satisfy
\* success + error = total.
C18_ViewConsistent ==
  /\ ~viewTorn
  /\ vpc = "shown" => view.SuccessCount + view.ErrorCount = view.TotalRequests

\* C19: in a run with a positive rate, worker count and duration, once a
\* quit key has been pressed the run context of a started Run is cancelled,
\* and the process does not end before Run has returned.
C19_QuitKeyCancels ==
  (ValidConfig /\ quitKey) =>
    /\ runPc \in {"spawn", "wait"} => runDone
    /\ mainPc = "exited" => runPc = "returned"

\* C20: in a run with a positive rate, worker count and duration that no
\* quit key ended and in which no worker took a tick after cancellation,
\* the Requests figure of the final report, headless or on TUI exit, is the
\* number of Attacker invocations begun.
C20_ReportCountsEveryAttack ==
  (ValidConfig /\ reportDone /\ ~quitKey /\ lateClaim = 0) => reportReq = nAttack


\* ---------------------------------------------------------------------------
\* Attackers
\* ---------------------------------------------------------------------------
\* the messages the failures of the static attacker's request can carry
FailureMessages ==
  { BuildError(m, u) : m \in Methods, u \in Urls } \cup { o.err : o \in DoOutcomes }

\* C21: when the static attacker cannot construct its request, or the
\* transport fails, Attack returns exactly one Result whose Error is the
\* failure's message and which has no status code; nothing panics, and the
\* worker's Add counts the Result as an error.
C21_HttpFailureIsErrorResult ==
  (atk.kind = "http" /\ atk.pc = "ret" /\ atk.fail \in {"build", "do"}) =>
    /\ atk.ret = 1
    /\ atk.res.Error # ""
    /\ atk.res.Error \in FailureMessages
    /\ atk.res.Code = 0
    /\ ClassField(atk.res) = "ErrorCount"
    /\ Add(stats, atk.res).ErrorCount = stats.ErrorCount + 1
    /\ panicked = "none"

C21_Witness ==
  /\ atk.kind = "http" /\ atk.pc = "ret" /\ atk.fail = "do"
  /\ Len(atk.sent) = 1

\* C22: a response body that fails while it is read gives a Result with the
\* Error set, which is counted as an error.
C22_BodyFailureIsErrorResult ==
  (atk.pc = "ret" /\ atk.fail = "body") =>
    atk.res.Error # "" /\ ClassField(atk.res) = "ErrorCount"

\* the script returned a dict whose "url" is a non-empty string
ReturnedUrl ==
  /\ atk.value.kind = "dict"
  /\ "url" \in DOMAIN atk.value.items
  /\ atk.value.items["url"].type = "string"
  /\ atk.value.items["url"].val # ""

\* what the script's dict says of a field, else the default of the contract
Returned(name, default) ==
  IF name \in DOMAIN atk.value.items THEN atk.value.items[name].val ELSE default

\* C23: when the script returns a mapping with a url, the scripted attacker
\* sends one request to that url, with the mapping's method (GET when it has
\* none) and the mapping's body.
C23_ScriptMappingSent ==
  (atk.kind = "script" /\ atk.pc = "ret" /\ ReturnedUrl) =>
    /\ Len(atk.sent) = 1
    /\ atk.sent[1].url = Returned("url", "")
    /\ atk.sent[1].method = Returned("method", "GET")
    /\ atk.sent[1].body = Returned("body", "")

\* C24: the headers of the mapping the script returns are on the request the
\* scripted attacker sends.
C24_ScriptHeadersSent ==
  (atk.kind = "script" /\ atk.pc = "ret" /\ ReturnedUrl
     /\ "headers" \in DOMAIN atk.value.items) =>
    /\ Len(atk.sent) = 1
    /\ atk.sent[1].headers = atk.value.headers

\* the script raised, returned something that is no mapping, or returned a
\* mapping without url
ScriptDefect ==
  \/ atk.value.kind \in {"raise", "string"}
  \/ atk.value.kind = "dict" /\ "url" \notin DOMAIN atk.value.items

ScriptMessages ==
  {"script error: boom", "script must return a dict", "script returned empty url"}

\* C25: a script that raises, returns no mapping, or returns a mapping
\* without url gives exactly one Result with a descriptive Error and no
\* request is sent; nothing panics and the worker goes on to Add the Result
\* and to its next invocation.
C25_ScriptDefectIsErrorResult ==
  (atk.kind = "script" /\ atk.pc = "ret" /\ ScriptDefect) =>
    /\ atk.ret = 1
    /\ atk.res.Error \in ScriptMessages
    /\ atk.res.Code = 0
    /\ atk.sent = << >>
    /\ panicked = "none"
    /\ ENABLED AtkAdd
    /\ ClassField(atk.res) = "ErrorCount"

C25_Witness ==
  /\ atk.kind = "script" /\ atk.pc = "ret"
  /\ atk.value.kind = "dict" /\ "url" \notin DOMAIN atk.value.items
  /\ stats.ErrorCount = 1

\* ---------------------------------------------------------------------------
\* The command line, the presenter, the final report
\* ---------------------------------------------------------------------------
\* exactly one of --url and --script is on the command line
ExactlyOne(a) == a.url # (a.script # "")

\* C26: once the Run closure has looked at a command line that has neither
\* --url nor --script, or both, the process has exited non-zero with a
\* message on stderr, and the engine was never started.
C26_ExactlyOneTarget ==
  (mainPc # "none" /\ ~ExactlyOne(args)) =>
    /\ mainPc = "exited"
    /\ exitCode # 0
    /\ stderr # ""
    /\ runPc = "init"
    /\ nAttack = 0

\* C27: when the process has exited, its exit code is non-zero exactly when
\* the command line failed validation, the script failed to load, or the
\* TUI failed; in the first two cases no Attack was begun.
C27_ExitCode ==
  mainPc = "exited" =>
    /\ (exitCode # 0) <=>
         \/ ~ExactlyOne(args)
         \/ NewScriptAttacker(args.script) # ""
         \/ stderr = "Error running TUI"
    /\ (~ExactlyOne(args) \/ NewScriptAttacker(args.script) # "") =>
         nAttack = 0 /\ runPc = "init"

\* C28: a tick at or after the duration sets quitting, issues the quit
\* command and schedules no tick; a tick before it, while not quitting,
\* schedules exactly one tick and does not quit; so a tick is scheduled
\* as long as the presenter has not quit, and once the duration has elapsed
\* the presenter eventually quits.
C28_TickChain ==
  /\ [][TuiTickMsg =>
          /\ (Elapsed >= cfg.duration) =>
               quitting' /\ quitCmd' /\ tuiTick' = 0
          /\ (Elapsed < cfg.duration /\ ~quitting) =>
               ~quitting' /\ ~quitCmd' /\ tuiTick' = 1]_vars
  /\ []((mainPc = "tui" /\ ~quitCmd) => tuiTick = 1)
  /\ (mainPc = "tui" /\ Elapsed >= cfg.duration) ~> (quitCmd \/ mainPc # "tui")

C28_Witness ==
  /\ mainPc = "tui" /\ ~quitKey
  /\ quitting /\ quitCmd /\ tuiTick = 0
  /\ percent > 0

\* C29: a key event 'q' or ctrl+c sets quitting and issues the quit command;
\* any other key event changes nothing of the presenter and issues nothing.
C29_KeyMsg ==
  [][\A k \in Keys :
       TuiKey(k) =>
         IF k \in {"q", "ctrl+c"}
           THEN quitting' /\ quitCmd'
           ELSE UNCHANGED mainVars]_vars

C29_Witness ==
  /\ mainPc = "tui" /\ quitKey
  /\ quitting /\ quitCmd /\ tuiTick = 1

\* C30: a finished final report has the Duration, Requests, Mean QPS and
\* Success lines; with r the figure of its Requests line, Success is 0% when
\* r is 0 and otherwise SuccessCount/r to two decimals; the four latency
\* lines are there if and only if r > 0.
C30_ReportLines ==
  reportDone =>
    /\ HeadLines \cup {"Success"} \subseteq report.lines
    /\ reportReq = 0 => report.success = 0
    /\ reportReq > 0 =>
         LET d == report.success * reportReq - 10000 * report.successCount
         IN  2 * d <= reportReq /\ 2 * (0 - d) <= reportReq
    /\ (LatencyLines \subseteq report.lines) <=> (reportReq > 0)
    /\ (LatencyLines \cap report.lines = {}) <=> (reportReq = 0)

\* ---------------------------------------------------------------------------
\* Hooks
\* ---------------------------------------------------------------------------
\* s has sub as a substring
Contains(s, sub) ==
  \E i \in 1..(Len(s) - Len(sub) + 1) : SubSeq(s, i, i + Len(sub) - 1) = sub

\* the decimal numerals of the exit codes
Decimal(e) ==
  CASE e = 0 -> "0" [] e = 1 -> "1" [] e = 10 -> "10" [] e = 255 -> "255"
    [] e = 0 - 1 -> "-1"

\* the one execution the hook call is to make: the hook path, with no
\* arguments for the pre-hook and the exit code for the post-hook
OneExecution ==
  << [command |-> HookPath(hook),
      args |-> IF hook.kind = "pre" THEN << >> ELSE << Decimal(hook.exitCode) >>] >>

\* a returned hook call on a config that is there
HookReturned == hook.pc = "done" /\ ~hook.cfg.nil

\* C31 as stated: an empty path gives nil and no execution, a path with no
\* file gives a "not found" error and no execution, and every other path is
\* executed exactly once.
C31_HookRunsOtherwise ==
  HookReturned =>
    IF HookPath(hook) = ""
      THEN hook.err = "" /\ hook.execs = << >>
    ELSE IF IsNotExist(Stat(HookPath(hook)).err)
      THEN Contains(hook.err, "not found") /\ hook.execs = << >>
    ELSE hook.execs = OneExecution

\* C31 amended: as above, but a path is executed, exactly once, only when
\* os.Stat succeeds on it and the file has an execute bit; a file that
\* cannot be examined or has no execute bit gives an error and no execution.
C31_HookRunsExecutable ==
  HookReturned =>
    IF HookPath(hook) = ""
      THEN hook.err = "" /\ hook.execs = << >>
    ELSE IF IsNotExist(Stat(HookPath(hook)).err)
      THEN Contains(hook.err, "not found") /\ hook.execs = << >>
    ELSE IF Stat(HookPath(hook)).err # "" \/ ~Executable(Stat(HookPath(hook)).mode)
      THEN hook.err # "" /\ hook.execs = << >>
    ELSE hook.execs = OneExecution

C31_Witness ==
  /\ HookReturned
  /\ hook.kind = "post" /\ hook.exitCode = 255
  /\ hook.execs = << [command |-> "hook.sh", args |-> << "255" >>] >>
  /\ nHooks = MaxCalls

\* ---------------------------------------------------------------------------
\* The pacer, the ticks and the workers
\* ---------------------------------------------------------------------------
\* Draining: the run context is cancelled and Run still waits for workers
Draining == runPc = "wait" /\ runDone /\ wg > 0

\* the workers that have a tick and have not yet called the Attacker
Claimed == {w \in Workers : wpc[w] = "recv"}

\* C32 as stated: in Draining, in a run with a positive rate, worker count
\* and duration, the pacer has stopped and the ticks channel is closed.
C32_PacerStoppedInDraining ==
  (ValidConfig /\ Draining) => (ppc = "exited" /\ ticksClosed)

\* C32 amended: once cancellation is set no send of the pacer hands a tick
\* to a worker (it finds none waiting and drops the tick); the pacer can
\* stop at its next select, and the ticks channel is closed exactly when the
\* pacer has exited, which in a run with a positive rate is after
\* cancellation.
C32_NoDeliveryAfterCancel ==
  /\ [][(runDone /\ ppc = "send" /\ ppc' # "send") =>
          (wpc' = wpc /\ ticksBuf' = ticksBuf /\ dropped' = dropped + 1)]_vars
  /\ [](runDone => ~ReceiverParked(wpc))
  /\ []((Alive /\ runDone /\ ppc = "select") => ENABLED PacerDone)
  /\ [](ticksClosed <=> ppc = "exited")
  /\ []((ticksClosed /\ cfg.qps >= 1) => runDone)

C32_Witness ==
  /\ ValidConfig /\ Draining
  /\ ppc = "send" /\ ~ticksClosed
  /\ lateClaim = 0
  /\ \E w \in Workers : wpc[w] = "attack"

\* C33: in a run with a positive rate, worker count and duration, at every
\* point the Attacker invocations begun, with the ticks claimed and not yet
\* acted on, are as many as the ticks the pacer has delivered; and no more
\* invocations are in flight than there are workers.
C33_OneAttackPerTick ==
  ValidConfig =>
    /\ nAttack + Cardinality(Claimed) = delivered
    /\ Cardinality({w \in Workers : wpc[w] = "attack"}) <= cfg.workers

\* the workers between claiming a tick and the end of the Add of its Result
Occupied == {w \in Workers : wpc[w] \in {"recv", "attack", "add"}}

\* C34: in a run with a positive rate, worker count and duration, and before
\* cancellation, the pacer drops a tick only when every worker of the run is
\* between claiming a tick and finishing its Add.
C34_DropOnlyWhenAllBusy ==
  [][(ValidConfig /\ ~runDone /\ dropped' = dropped + 1) =>
       Occupied = 1..cfg.workers]_vars

\* C35: the context a worker passes to the Attacker is done when the run
\* context is, and its deadline is no later than the per-request timeout
\* after the call.
C35_AttackContextHasTimeout ==
  [][\A w \in Workers :
       (wpc[w] # "attack" /\ wpc'[w] = "attack") =>
         /\ RunCtx.done => AttackCtx(w).done
         /\ AttackCtx(w).deadline <= RunCtx.deadline
         /\ AttackCtx(w).deadline <= now + Timeout]_vars

\* C37: only the pacer sends on the tick channel and only the pacer closes
\* it: a tick is handed over, buffered or dropped only by the pacer at its
\* send, with the channel open; the channel is closed only by the step in
\* which the pacer exits, and it is open before that step, so it is closed
\* once; once closed it stays closed and the pacer stays exited, so no send
\* follows the close. For every rate and every number of workers.
C37_PacerOnlySenderAndCloser ==
  /\ [][(delivered' # delivered \/ dropped' # dropped \/ ticksBuf' > ticksBuf) =>
          (ppc = "send" /\ ppc' # "send" /\ ~ticksClosed)]_vars
  /\ [][ticksClosed' # ticksClosed =>
          (~ticksClosed /\ ppc # "exited" /\ ppc' = "exited")]_vars
  /\ [][(ppc # "exited" /\ ppc' = "exited") => (~ticksClosed /\ ticksClosed')]_vars
  /\ [][ticksClosed => (ticksClosed' /\ ppc' = "exited")]_vars
  /\ [](ticksClosed => ppc = "exited")

C37_Witness ==
  /\ cfg.qps >= 1 /\ ticksClosed /\ ppc = "exited"
  /\ delivered >= 1 /\ dropped >= 1

\* C38: for every rate of at least one the interval is positive and the
\* ticker is created: the pacer does not fail when it starts.
C38_IntervalPositive ==
  cfg.qps >= 1 => (Interval(cfg.qps) > 0 /\ panicked # "NewTicker")

\* the pacer's ticker can be created
TickerStarts == cfg.qps <= 0 \/ Interval(cfg.qps) > 0

\* once Run has returned, a pacer whose ticker can be created exits and
\* closes the tick channel
PacerTerminatesWhenTickerStarts ==
  (runPc = "returned" /\ TickerStarts) ~> (ppc = "exited" /\ ticksClosed)

\* C40: once Run has returned, whatever the rate and the number of workers,
\* the run context is cancelled, and the pacer has exited and closed the
\* tick channel or is still able to take its next step towards that: it is
\* never left unfinished with no step to take.
C40_PacerTerminates ==
  runPc = "returned" =>
    /\ runDone
    /\ \/ ppc = "exited" /\ ticksClosed
       \/ ENABLED Pacer

\* ---------------------------------------------------------------------------
\* The presenter once it is quitting
\* ---------------------------------------------------------------------------
\* C39: quitting, once set, stays set whatever message Update receives; a
\* tick received while quitting issues the quit command and schedules no
\* tick; View, while quitting, renders the final report, and the screen
\* never goes back from the final report to the live statistics.
C39_QuittingAbsorbing ==
  /\ [][quitting => quitting']_vars
  /\ [][(mainPc = "tui" /\ quitting /\ tuiTick' # tuiTick) =>
          (quitCmd' /\ tuiTick' = tuiTick - 1)]_vars
  /\ [][(quitting /\ screen'.frame # screen.frame) => screen'.frame = "final"]_vars
  /\ [][screen.frame = "final" => screen'.frame = "final"]_vars
  /\ []((mainPc = "tui" /\ quitCmd) => quitting)

C39_Witness ==
  /\ mainPc = "tui" /\ quitting /\ quitCmd
  /\ quitKey /\ tuiTick = 0
  /\ screen.frame = "final" /\ screen.anim >= 1

\* ---------------------------------------------------------------------------
\* The script's state
\* ---------------------------------------------------------------------------
\* C36: once the script is loaded no invocation changes the state the
\* invocations share; every invocation sees the global list as the load
\* left it, whatever other invocations have done before or are doing; what
\* an invocation appends to is its own list, which starts empty.
C36_ScriptStateNotShared ==
  /\ [](sx.glob = 0)
  /\ [](\A w \in Workers : sx.th[w].saw = 0 /\ sx.th[w].mine <= 1)
  /\ [][\A w \in Workers :
          (sx.th[w].pc = "idle" /\ sx'.th[w].pc # "idle") => sx'.th[w].mine = 0]_vars
  /\ [][\A w \in Workers :
          sx'.th[w] # sx.th[w] =>
            \A v \in Workers \ {w} : sx'.th[v] = sx.th[v]]_vars

C36_Witness ==
  /\ sx.calls = MaxCalls
  /\ \E w, v \in Workers :
       /\ w # v
       /\ sx.th[w].pc = "ret" /\ sx.th[w].err # "" /\ sx.th[w].mine = 1
       /\ sx.th[v].pc = "local" /\ sx.th[v].saw = 0

====
